---- MODULE Spec2Model ----
(***************************************************************************)
(* Verification model of txtHistoryRust: the processed-message store       *)
(* (db.rs, nlp.rs), the sentiment score (nlp.rs), the chunked export       *)
(* (utils.rs, repository.rs, service.rs) and the written files             *)
(* (file_writer.rs, repository.rs, main.rs).                               *)
(*                                                                         *)
(* Option<T> is modelled as a sequence: <<>> is None and <<x>> is Some(x). *)
(* A string whose content matters character by character is a sequence of  *)
(* one-character strings.                                                  *)
(***************************************************************************)
EXTENDS Integers, Sequences, FiniteSets, TLC

VARIABLES
    \* ---- processed-message store (db.rs, nlp.rs) ----
    messages,        \* table messages: rows in rowid order
    processed,       \* table processed_messages: rows in rowid order
    clock,           \* the value Utc::now() returns next
    op,              \* the last store operation that was called
    arg_ids,         \* message_ids of the last process_messages call
    arg_version,     \* version of the processor / record of the last call
    ret,             \* the records the last call returned
    status,          \* "ok" or "err": the Result of the last call
    pre_len,         \* number of rows of processed_messages before the last call
    arg_batch_size,  \* batch_size of the last run of the process command
    db_fault,        \* Option: the position, in the ids of that run, of the
                     \* id at which a database call failed
    \* ---- chunking and export (utils.rs, repository.rs, service.rs) ----
    conversation,    \* rows of table messages in date_created order
    call,            \* the chunking function or export path last called
    size_arg,        \* Option<f64>: the size budget in MB passed to it
    lines_arg,       \* Option<usize>: the count passed to it
    only_contact,    \* the only_contact flag passed to it
    exported,        \* the message sequence that was to be chunked / exported
    chunks,          \* the chunks it computed
    outcome,         \* "ok", "err" (Err returned) or "panic" (abort)
    format_arg,      \* the OutputFormat passed to it
    written,         \* the save_messages calls it made, in order
    \* ---- writing files (file_writer.rs, repository.rs, main.rs) ----
    out_messages,    \* the messages handed to the exporter
    out_dir_exists,  \* whether the output directory exists beforehand
    disk,            \* the file system: directories, and files with content
    wcall,           \* the exporter last called
    wformat,         \* the OutputFormat passed to it
    wfault,          \* the file-system fault that hit the call
    wresult,         \* "ok" or "err": the Result it returned
    wintended,       \* the files it leaves when nothing fails
    \* ---- sentiment (nlp.rs) ----
    stext,           \* the text that was scored, as its words
    scall,           \* the function that scored it
    sscore,          \* Option<f32>: the score it gave
    \* ---- cleaning, tokens, entities (nlp.rs) ----
    ctext,           \* the text that was analysed, character by character
    ccall,           \* the function that analysed it
    cenglish,        \* whether detect found English with confidence > 0.5
    cout,            \* what the function returned
    \* ---- two callers of the store at once (db.rs, nlp.rs) ----
    rstore,          \* table processed_messages
    runique,         \* whether the table has a UNIQUE constraint on
                     \* (original_message_id, processing_version)
    rcall            \* per caller: what it runs, where it is, what it got

storeVars == <<messages, processed, clock, op, arg_ids, arg_version, ret,
               status, pre_len, arg_batch_size, db_fault>>
chunkVars == <<conversation, call, size_arg, lines_arg, only_contact,
               exported, chunks, outcome, format_arg, written>>
writeVars == <<out_messages, out_dir_exists, disk, wcall, wformat, wfault,
               wresult, wintended>>
sentVars == <<stext, scall, sscore>>
textVars == <<ctext, ccall, cenglish, cout>>
raceVars == <<rstore, runique, rcall>>
vars == <<messages, processed, clock, op, arg_ids, arg_version, ret,
          status, pre_len, arg_batch_size, db_fault,
          conversation, call, size_arg, lines_arg,
          only_contact, exported, chunks, outcome, format_arg, written,
          out_messages, out_dir_exists, disk, wcall, wformat, wfault,
          wresult, wintended, stext, scall, sscore,
          ctext, ccall, cenglish, cout, rstore, runique, rcall>>

----------------------------------------------------------------------------
(* Bounds of the model *)

\* most rows of table messages
MaxMessages == 2
\* most rows of table processed_messages
MaxRows == 2
\* longest message_ids slice passed to process_messages
MaxBatch == 2
\* largest value of the clock
MaxClock == 1
\* most rows of the conversation that is chunked and exported
MaxLen == 3
\* largest lines_per_chunk / rows passed to the count strategy
MaxLines == 3
\* most words of a text that is scored
MaxWords == 4
\* most pieces of a text that is cleaned or tokenized
MaxPieces == 4

None == <<>>
Some(x) == <<x>>

\* the message ids callers ask for; the largest never resolves
MsgIds == 1..(MaxMessages + 1)
Versions == {"v1", "v2"}
\* message bodies offered to add_message
Texts == { <<"H", "i", "!">> }
Batches == UNION { [1..n -> MsgIds] : n \in 0..MaxBatch }

Min(a, b) == IF a < b THEN a ELSE b

----------------------------------------------------------------------------
(* nlp.rs: text cleaning *)

UpperChars == {"G", "H"}
LowerChars == {"g", "h", "i", "k", "o", "p", "s", "t", "w"}
lower(c) == CASE c = "G" -> "g" [] c = "H" -> "h" [] OTHER -> c
\* \s of the regex crate and char::is_whitespace
IsSpace(c) == c \in {" ", "\t"}
\* \w of the regex crate: letters, digits, marks, connector punctuation
IsWord(c) == c \in UpperChars \cup LowerChars \cup {"1", "_", "U+1D400"}
\* \p{Emoji}: pictographs, and also the keycap bases 0-9, # and *
IsEmoji(c) == c \in {"U+1F600", "1", "#", "*"}

StartsWith(s, p) == Len(s) >= Len(p) /\ SubSeq(s, 1, Len(p)) = p

\* length of the literal part of the URL pattern that s starts with, or 0
UrlPrefixLen(s) ==
    IF StartsWith(s, <<"h", "t", "t", "p", "s", ":", "/", "/">>) THEN 8
    ELSE IF StartsWith(s, <<"h", "t", "t", "p", ":", "/", "/">>) THEN 7
    ELSE IF StartsWith(s, <<"w", "w", "w", ".">>) THEN 4
    ELSE 0

RECURSIVE skip_nonspace(_)
skip_nonspace(s) ==
    IF s # <<>> /\ ~IsSpace(Head(s)) THEN skip_nonspace(Tail(s)) ELSE s

\* url_regex.replace_all(text, " ") with url_regex = https?://\S+|www\.\S+
RECURSIVE replace_urls(_)
replace_urls(s) ==
    IF s = <<>> THEN <<>>
    ELSE LET p == UrlPrefixLen(s) IN
         IF p > 0 /\ Len(s) > p /\ ~IsSpace(s[p + 1])
         THEN <<" ">> \o replace_urls(skip_nonspace(SubSeq(s, p + 1, Len(s))))
         ELSE <<Head(s)>> \o replace_urls(Tail(s))

\* emoji_regex.replace_all(text, " ") with emoji_regex = [\p{Emoji}]
replace_emojis(s) == [i \in 1..Len(s) |-> IF IsEmoji(s[i]) THEN " " ELSE s[i]]

\* special_chars_regex.replace_all(text, " ") with the regex [^\w\s]
replace_special(s) ==
    [i \in 1..Len(s) |-> IF IsWord(s[i]) \/ IsSpace(s[i]) THEN s[i] ELSE " "]

\* extra_spaces_regex.replace_all(text, " ") with the regex \s+
RECURSIVE collapse_spaces(_)
collapse_spaces(s) ==
    IF s = <<>> THEN <<>>
    ELSE IF IsSpace(Head(s))
         THEN IF Len(s) > 1 /\ IsSpace(s[2])
              THEN collapse_spaces(Tail(s))
              ELSE <<" ">> \o collapse_spaces(Tail(s))
         ELSE <<Head(s)>> \o collapse_spaces(Tail(s))

RECURSIVE trim_start(_)
trim_start(s) ==
    IF s # <<>> /\ IsSpace(Head(s)) THEN trim_start(Tail(s)) ELSE s

RECURSIVE trim_end(_)
trim_end(s) ==
    IF s # <<>> /\ IsSpace(s[Len(s)]) THEN trim_end(SubSeq(s, 1, Len(s) - 1))
    ELSE s

trim(s) == trim_end(trim_start(s))

to_lowercase(s) == [i \in 1..Len(s) |-> lower(s[i])]

\* whitespace is collapsed before emojis and special characters are replaced
clean_text_collapse_first(text) ==
    to_lowercase(trim(replace_special(replace_emojis(collapse_spaces(
        replace_urls(text))))))

\* NlpProcessor::clean_text; NFC is the identity on the characters modelled
clean_text(text) ==
    to_lowercase(trim(collapse_spaces(replace_special(replace_emojis(
        replace_urls(text))))))

\* NlpProcessor::process_text and NlpAnalysis::to_new_processed_message:
\* the analysis of a message body as it is stored
process_text(text) == [processed_text |-> clean_text(text)]

----------------------------------------------------------------------------
(* nlp.rs: tokens and entities *)

\* char::is_uppercase: the property Uppercase.  U+1D400, MATHEMATICAL BOLD
\* CAPITAL A, has it and has no lowercase mapping
is_uppercase(c) == c \in UpperChars \cup {"U+1D400"}

\* str::split_whitespace
RECURSIVE split_whitespace(_)
split_whitespace(s) ==
    LET rest == trim_start(s)
        after == skip_nonspace(rest)
    IN IF rest = <<>> THEN <<>>
       ELSE <<SubSeq(rest, 1, Len(rest) - Len(after))>>
                \o split_whitespace(after)

\* get(LANGUAGE::English) of the stop_words crate: the words of the list
\* that the texts drawn can hold
stopwords ==
    { <<"t", "h", "i", "s">>, <<"i", "s">>, <<"a">>,
      <<"w", "i", "t", "h">> }

\* membership in the stopword set is tested on the lower-cased fragment
tokenize_lowercased(text) ==
    SelectSeq(split_whitespace(text),
              LAMBDA s : s # <<>> /\ to_lowercase(s) \notin stopwords)

\* NlpProcessor::tokenize
tokenize(text) ==
    SelectSeq(split_whitespace(text),
              LAMBDA s : s # <<>> /\ s \notin stopwords)

\* the sentence starters that are skipped as first word
starters == { <<"I">>, <<"T", "h", "e">>, <<"A">>, <<"A", "n">>,
              <<"T", "h", "i", "s">>, <<"T", "h", "a", "t">> }

\* number of bytes of the UTF-8 encoding of s
RECURSIVE utf8_len(_)
utf8_len(s) ==
    IF s = <<>> THEN 0
    ELSE (IF Head(s) \in {"U+1D400", "U+1F600"} THEN 4 ELSE 1)
         + utf8_len(Tail(s))

\* text.find(word).unwrap_or(0): byte offset of the first occurrence
find_str(text, word) ==
    LET starts == { i \in 1..(Len(text) - Len(word) + 1) :
                        SubSeq(text, i, i + Len(word) - 1) = word }
    IN IF starts = {} THEN 0
       ELSE utf8_len(SubSeq(text, 1,
                (CHOOSE i \in starts : \A j \in starts : i <= j) - 1))

\* NlpProcessor::extract_entities; english is the outcome of
\* detect(text): Some(info) with info.lang() == Lang::Eng and
\* info.confidence() > 0.5
extract_entities(text, english) ==
    IF ~english THEN <<>>
    ELSE LET words == split_whitespace(text)
             hit(i) == /\ words[i] # <<>>
                       /\ is_uppercase(words[i][1])
                       /\ (i > 1 \/ words[i] \notin starters)
             RECURSIVE collect(_)
             collect(i) ==
                 IF i > Len(words) THEN <<>>
                 ELSE (IF hit(i)
                       THEN <<[text |-> words[i],
                               entity_type |-> "PERSON",
                               start |-> find_str(text, words[i]),
                               end |-> find_str(text, words[i])
                                           + utf8_len(words[i])]>>
                       ELSE <<>>) \o collect(i + 1)
         IN collect(1)

\* the entities are extracted from the text as it was written
process_text_entities_raw(text, english) == extract_entities(text, english)

\* NlpProcessor::process_text: the field entities of the NlpAnalysis
process_text_entities(text, english) ==
    extract_entities(clean_text(text), english)

----------------------------------------------------------------------------
(* nlp.rs: sentiment.  A text is held as the sequence of its whitespace-
   separated words, each word one string.  Weights and intensities have one
   decimal and are held in tenths; the sentiment of a word, a product of a
   weight, an intensity and 0.8 or 1, is held in thousandths; a score is
   the fraction num / den with den > 0.  f32 rounding is left out. *)

positive_words ==
    { <<"good", 10>>, <<"great", 15>>, <<"excellent", 20>>,
      <<"amazing", 20>>, <<"wonderful", 18>>, <<"fantastic", 18>>,
      <<"happy", 12>>, <<"joy", 15>>, <<"love", 20>>, <<"like", 10>>,
      <<"best", 15>>, <<"better", 12>>, <<"awesome", 18>>,
      <<"perfect", 20>>, <<"brilliant", 18>>, <<"outstanding", 18>>,
      <<"superb", 18>>, <<"marvelous", 18>>, <<"delightful", 15>>,
      <<"pleased", 12>>, <<"satisfied", 10>>, <<"excited", 15>>,
      <<"thrilled", 18>>, <<"grateful", 15>>, <<"blessed", 15>>,
      <<"fortunate", 12>>, <<"lucky", 10>>, <<"successful", 15>>,
      <<"victory", 18>>, <<"win", 15>>, <<"achievement", 15>> }

negative_words ==
    { <<"bad", -10>>, <<"terrible", -20>>, <<"awful", -20>>,
      <<"horrible", -20>>, <<"worst", -20>>, <<"hate", -20>>,
      <<"dislike", -10>>, <<"poor", -12>>, <<"disappointing", -15>>,
      <<"sad", -12>>, <<"angry", -15>>, <<"upset", -12>>,
      <<"frustrated", -15>>, <<"annoyed", -12>>, <<"irritated", -12>>,
      <<"disgusted", -18>>, <<"furious", -20>>, <<"devastated", -20>>,
      <<"depressed", -18>>, <<"miserable", -18>>, <<"hopeless", -18>>,
      <<"desperate", -15>>, <<"worried", -12>>, <<"anxious", -12>>,
      <<"scared", -15>>, <<"afraid", -12>>, <<"disgusting", -18>>,
      <<"revolting", -18>>, <<"pathetic", -15>>, <<"useless", -15>>,
      <<"worthless", -18>> }

intensifiers ==
    { <<"very", 15>>, <<"extremely", 20>>, <<"incredibly", 20>>,
      <<"absolutely", 20>>, <<"completely", 18>>, <<"totally", 18>>,
      <<"really", 13>>, <<"so", 12>>, <<"quite", 12>>, <<"rather", 11>>,
      <<"somewhat", 8>>, <<"slightly", 7>>, <<"barely", 5>>,
      <<"hardly", 5>> }

negations ==
    { "not", "no", "never", "none", "nothing", "nobody", "nowhere",
      "neither", "nor" }

\* word.to_lowercase(), on the words that are drawn
lower_word(word) ==
    CASE word = "Good" -> "good"
      [] word = "NOT" -> "not"
      [] OTHER -> word

\* list.iter().find(|(w, _)| *w == word), as an Option of the second field
find(list, word) ==
    LET hits == { e \in list : e[1] = word }
    IN IF hits = {} THEN None ELSE Some((CHOOSE e \in hits : TRUE)[2])

\* sentiment *= intensity when words[i - 1] is an intensifier: hundredths
intensify(words, i, weight) ==
    LET intensity == IF i > 1 THEN find(intensifiers, lower_word(words[i - 1]))
                     ELSE None
    IN IF intensity # None THEN weight * intensity[1] ELSE weight * 10

\* a negation is looked for at words[i - 1] only
has_negation_adjacent(words, i) ==
    i >= 2 /\ lower_word(words[i - 1]) \in negations

\* has_negation; i counts from 1 here and from 0 in the source
has_negation(words, i) ==
    \/ i >= 2 /\ lower_word(words[i - 1]) \in negations
    \/ i >= 3 /\ lower_word(words[i - 2]) \in negations

\* the sentiment, in thousandths, that words[i] adds for one of the two
\* lexicons, as an Option: None when the word is not in the lexicon
word_sentiment(lexicon, words, i) ==
    LET weight == find(lexicon, lower_word(words[i]))
    IN IF weight = None THEN None
       ELSE LET sentiment == intensify(words, i, weight[1])
            IN Some(IF has_negation(words, i) THEN (-sentiment) * 8
                    ELSE sentiment * 10)

\* total_sentiment += sentiment; word_count += 1.0
accumulate(acc, sentiment) ==
    IF sentiment = None THEN acc
    ELSE [total_sentiment |-> acc.total_sentiment + sentiment[1],
          word_count |-> acc.word_count + 1]

\* for (i, word) in words.iter().enumerate(): the positive lexicon, then the
\* negative one
RECURSIVE sentiment_loop(_, _, _)
sentiment_loop(words, i, acc) ==
    IF i > Len(words) THEN acc
    ELSE sentiment_loop(words, i + 1,
             accumulate(accumulate(acc, word_sentiment(positive_words, words, i)),
                        word_sentiment(negative_words, words, i)))

sentiment_totals(words) ==
    sentiment_loop(words, 1, [total_sentiment |-> 0, word_count |-> 0])

f32(n) == [num |-> n, den |-> 1]
f32_lt(a, b) == a.num * b.den < b.num * a.den
f32_eq(a, b) == a.num * b.den = b.num * a.den
f32_max(a, b) == IF f32_lt(a, b) THEN b ELSE a
f32_min(a, b) == IF f32_lt(b, a) THEN b ELSE a

\* total_sentiment / word_count, for word_count > 0
normalized(acc) ==
    [num |-> acc.total_sentiment, den |-> 1000 * acc.word_count]

\* the quotient is returned as it is
clamp_none(x) == x

\* normalized.max(-1.0_f32).min(1.0_f32)
clamp(x) == f32_min(f32_max(x, f32(-1)), f32(1))

\* NlpProcessor::analyze_sentiment
analyze_sentiment(words) ==
    LET acc == sentiment_totals(words)
    IN IF acc.word_count = 0 THEN f32(0) ELSE clamp(normalized(acc))

\* clean_text on a text held as words: the words in lower case
clean_words(words) == [i \in 1..Len(words) |-> lower_word(words[i])]

\* the score is left out when the text has no word of the two lexicons
sentiment_score_absent(words) ==
    IF sentiment_totals(clean_words(words)).word_count = 0 THEN None
    ELSE Some(analyze_sentiment(clean_words(words)))

\* NlpProcessor::process_text: the field sentiment_score of the NlpAnalysis
sentiment_score(words) == Some(analyze_sentiment(clean_words(words)))

----------------------------------------------------------------------------
(* db.rs: the tables messages and processed_messages *)

\* SELECT * FROM messages WHERE id = ?
get_message_by_id(msgs, message_id) ==
    LET hits == SelectSeq(msgs, LAMBDA m : m.id = message_id)
    IN IF hits = <<>> THEN None ELSE Some(Head(hits))

\* get_processed_message whose query forgets the version
get_processed_message_any_version(store, message_id, version) ==
    LET hits == SelectSeq(store, LAMBDA p : p.original_message_id = message_id)
    IN IF hits = <<>> THEN None ELSE Some(Head(hits))

\* SELECT * FROM processed_messages
\*   WHERE original_message_id = ? AND processing_version = ?
get_processed_message(store, message_id, version) ==
    LET hits == SelectSeq(store, LAMBDA p :
                    p.original_message_id = message_id
                    /\ p.processing_version = version)
    IN IF hits = <<>> THEN None ELSE Some(Head(hits))

\* add_processed_message without the existence check: always inserts
add_processed_message_unchecked(store, new_processed, now) ==
    LET row == [id |-> Len(store) + 1,
                original_message_id |-> new_processed.original_message_id,
                processed_text |-> new_processed.processed_text,
                processed_at |-> now,
                processing_version |-> new_processed.processing_version]
    IN [store |-> Append(store, row), record |-> row, inserted |-> TRUE]

\* add_processed_message whose existence check forgets the version
add_processed_message_any_version(store, new_processed, now) ==
    LET existing == SelectSeq(store, LAMBDA p :
                        p.original_message_id = new_processed.original_message_id)
        row == [id |-> Len(store) + 1,
                original_message_id |-> new_processed.original_message_id,
                processed_text |-> new_processed.processed_text,
                processed_at |-> now,
                processing_version |-> new_processed.processing_version]
    IN IF existing # <<>>
       THEN [store |-> store, record |-> Head(existing), inserted |-> FALSE]
       ELSE [store |-> Append(store, row), record |-> row, inserted |-> TRUE]

\* Database::add_processed_message at time now: the table afterwards, the
\* record returned and whether a row was inserted
add_processed_message(store, new_processed, now) ==
    LET existing == SelectSeq(store, LAMBDA p :
                        p.original_message_id = new_processed.original_message_id
                        /\ p.processing_version = new_processed.processing_version)
        row == [id |-> Len(store) + 1,
                original_message_id |-> new_processed.original_message_id,
                processed_text |-> new_processed.processed_text,
                processed_at |-> now,
                processing_version |-> new_processed.processing_version]
    IN IF existing # <<>>
       THEN [store |-> store, record |-> Head(existing), inserted |-> FALSE]
       ELSE [store |-> Append(store, row), record |-> row, inserted |-> TRUE]

\* NlpAnalysis::to_new_processed_message
to_new_processed_message(analysis, message_id, version) ==
    [original_message_id |-> message_id,
     processed_text |-> analysis.processed_text,
     processing_version |-> version]

\* add_processed_message, first statement: the SELECT by message id and
\* version, on a connection of the pool
select_processed(store, new_processed) ==
    get_processed_message(store, new_processed.original_message_id,
                          new_processed.processing_version)

\* add_processed_message, second statement: the INSERT, run when the SELECT
\* found nothing.  unique tells whether the table, whose CREATE TABLE is
\* in a migration file, has a UNIQUE constraint on the pair
insert_processed(store, new_processed, now, unique) ==
    IF unique /\ select_processed(store, new_processed) # None
    THEN [store |-> store, record |-> None, status |-> "err"]
    ELSE LET added == add_processed_message_unchecked(store, new_processed, now)
         IN [store |-> added.store, record |-> Some(added.record),
             status |-> "ok"]

\* Utc::now() after one more insert: time does not run backwards and may
\* stand still
later(now) == Min(now + 1, MaxClock)

\* process_messages that skips an already processed id without returning
\* its record
RECURSIVE process_messages_skip_existing(_, _, _, _, _, _)
process_messages_skip_existing(msgs, store, now, version, message_ids, out) ==
    IF message_ids = <<>>
    THEN [store |-> store, clock |-> now, ret |-> out, status |-> "ok"]
    ELSE LET message_id == Head(message_ids)
             existing == get_processed_message(store, message_id, version)
             message == get_message_by_id(msgs, message_id)
         IN IF existing # None
            THEN process_messages_skip_existing(msgs, store, now, version,
                                  Tail(message_ids), out)
            ELSE IF message = None
            THEN [store |-> store, clock |-> now, ret |-> <<>>, status |-> "err"]
            ELSE IF message[1].text = None
            THEN process_messages_skip_existing(msgs, store, now, version,
                                  Tail(message_ids), out)
            ELSE LET analysis == process_text(message[1].text[1])
                     added == add_processed_message(store,
                                  to_new_processed_message(analysis, message_id, version),
                                  now)
                 IN process_messages_skip_existing(msgs, added.store,
                                     IF added.inserted THEN later(now) ELSE now,
                                     version, Tail(message_ids),
                                     Append(out, added.record))

\* process_messages that analyses an absent body as the empty text
\* (unwrap_or_default) instead of skipping the message
RECURSIVE process_messages_text_default(_, _, _, _, _, _)
process_messages_text_default(msgs, store, now, version, message_ids, out) ==
    IF message_ids = <<>>
    THEN [store |-> store, clock |-> now, ret |-> out, status |-> "ok"]
    ELSE LET message_id == Head(message_ids)
             existing == get_processed_message(store, message_id, version)
             message == get_message_by_id(msgs, message_id)
         IN IF existing # None
            THEN process_messages_text_default(msgs, store, now, version,
                                  Tail(message_ids), Append(out, existing[1]))
            ELSE IF message = None
            THEN [store |-> store, clock |-> now, ret |-> <<>>, status |-> "err"]
            ELSE LET text == IF message[1].text = None THEN <<>>
                             ELSE message[1].text[1]
                     added == add_processed_message(store,
                                  to_new_processed_message(process_text(text),
                                                           message_id, version),
                                  now)
                 IN process_messages_text_default(msgs, added.store,
                                     IF added.inserted THEN later(now) ELSE now,
                                     version, Tail(message_ids),
                                     Append(out, added.record))

\* process_messages that puts each record in front of the list it returns
RECURSIVE process_messages_push_front(_, _, _, _, _, _)
process_messages_push_front(msgs, store, now, version, message_ids, out) ==
    IF message_ids = <<>>
    THEN [store |-> store, clock |-> now, ret |-> out, status |-> "ok"]
    ELSE LET message_id == Head(message_ids)
             existing == get_processed_message(store, message_id, version)
             message == get_message_by_id(msgs, message_id)
         IN IF existing # None
            THEN process_messages_push_front(msgs, store, now, version,
                                  Tail(message_ids), <<existing[1]>> \o out)
            ELSE IF message = None
            THEN [store |-> store, clock |-> now, ret |-> <<>>, status |-> "err"]
            ELSE IF message[1].text = None
            THEN process_messages_push_front(msgs, store, now, version,
                                  Tail(message_ids), out)
            ELSE LET analysis == process_text(message[1].text[1])
                     added == add_processed_message(store,
                                  to_new_processed_message(analysis, message_id, version),
                                  now)
                 IN process_messages_push_front(msgs, added.store,
                                     IF added.inserted THEN later(now) ELSE now,
                                     version, Tail(message_ids),
                                     <<added.record>> \o out)

\* NlpProcessor::process_messages: the loop over message_ids from the
\* table `store` at time `now`, `out` being processed_messages so far
RECURSIVE process_messages(_, _, _, _, _, _)
process_messages(msgs, store, now, version, message_ids, out) ==
    IF message_ids = <<>>
    THEN [store |-> store, clock |-> now, ret |-> out, status |-> "ok"]
    ELSE LET message_id == Head(message_ids)
             existing == get_processed_message(store, message_id, version)
             message == get_message_by_id(msgs, message_id)
         IN IF existing # None
            THEN process_messages(msgs, store, now, version,
                                  Tail(message_ids), Append(out, existing[1]))
            ELSE IF message = None
            THEN [store |-> store, clock |-> now, ret |-> <<>>, status |-> "err"]
            ELSE IF message[1].text = None
            THEN process_messages(msgs, store, now, version,
                                  Tail(message_ids), out)
            ELSE LET analysis == process_text(message[1].text[1])
                     added == add_processed_message(store,
                                  to_new_processed_message(analysis, message_id, version),
                                  now)
                 IN process_messages(msgs, added.store,
                                     IF added.inserted THEN later(now) ELSE now,
                                     version, Tail(message_ids),
                                     Append(out, added.record))

\* a call of process_messages during which the database may fail: with
\* fault = Some(p) the first database call made for the p-th id returns
\* Err, which `?` returns from the loop; the ids before it were handled
process_messages_with_fault(msgs, store, now, version, message_ids, fault) ==
    IF fault # None /\ fault[1] \in 1..Len(message_ids)
    THEN LET r == process_messages(msgs, store, now, version,
                                   SubSeq(message_ids, 1, fault[1] - 1), <<>>)
         IN [store |-> r.store, clock |-> r.clock, ret |-> <<>>,
             status |-> "err"]
    ELSE process_messages(msgs, store, now, version, message_ids, <<>>)

\* SELECT m.id FROM messages m LEFT JOIN processed_messages p
\*   ON m.id = p.original_message_id AND p.processing_version = ?
\*   WHERE p.id IS NULL
get_unprocessed_message_ids(msgs, store, version) ==
    LET rows == SelectSeq(msgs, LAMBDA m :
                    get_processed_message(store, m.id, version) = None)
    IN [i \in 1..Len(rows) |-> rows[i].id]

\* db.get_messages(name, ..) mapped to ids: the store holds the messages
\* of one contact
get_messages_ids(msgs) == [i \in 1..Len(msgs) |-> msgs[i].id]

\* config.nlp.batch_size: 100 unless configured, and validated to be > 0
nlp_batch_size == 100

effective_batch_size(batch_size) ==
    IF batch_size > 0 THEN batch_size ELSE nlp_batch_size

\* the batch loop of the process command that undoes the whole run when a
\* batch fails
process_batches_rollback(msgs, store, now, version, message_ids, batch_size, fault) ==
    LET r == process_messages_with_fault(msgs, store, now, version,
                                         message_ids, fault)
    IN IF r.status = "err"
       THEN [store |-> store, clock |-> now, ret |-> <<>>, status |-> "err"]
       ELSE r

\* the batch loop of the process command that stops after its first batch
process_batches_first_batch(msgs, store, now, version, message_ids, batch_size, fault) ==
    IF message_ids = <<>>
    THEN [store |-> store, clock |-> now, ret |-> <<>>, status |-> "ok"]
    ELSE LET r == process_messages_with_fault(msgs, store, now, version,
                      SubSeq(message_ids, 1, Min(batch_size, Len(message_ids))),
                      fault)
         IN [store |-> r.store, clock |-> r.clock, ret |-> <<>>,
             status |-> r.status]

\* main.rs process_messages, lines 387-396: the loop over
\* message_ids.chunks(batch_size); `?` ends the run at the first batch
\* that fails
RECURSIVE process_batches(_, _, _, _, _, _, _)
process_batches(msgs, store, now, version, message_ids, batch_size, fault) ==
    IF message_ids = <<>>
    THEN [store |-> store, clock |-> now, ret |-> <<>>, status |-> "ok"]
    ELSE LET n == Min(batch_size, Len(message_ids))
             batch_ids == SubSeq(message_ids, 1, n)
             r == process_messages_with_fault(msgs, store, now, version,
                                              batch_ids, fault)
         IN IF r.status = "err"
            THEN [store |-> r.store, clock |-> r.clock, ret |-> <<>>,
                  status |-> "err"]
            ELSE process_batches(msgs, r.store, r.clock, version,
                                 SubSeq(message_ids, n + 1, Len(message_ids)),
                                 batch_size,
                                 IF fault = None THEN None
                                 ELSE Some(fault[1] - n))

----------------------------------------------------------------------------
(* utils.rs, repository.rs, service.rs: chunking *)

\* the person whose conversation is exported, and the owner of the archive
PersonName == "Phil"
Senders == {"Phil", "Jess"}
\* content.len() of the message bodies of the conversation
ContentLens == {0, 51, 60000}
OutputFormats == {"Txt", "Csv", "Json"}

\* a size in MB is held as the number of 1/SizeMbDen MB
SizeMbDen == 10000
SizeMbs == {-1, 1, 2, 1000}
\* 1024.0 * 1024.0
BytesPerMb == 1024 * 1024
\* default_chunk_size_mb = 0.1
default_chunk_size_mb == 1000
\* the fixed overhead per message of each size estimate
UtilsOverhead == 50
RepositoryOverhead == 50
ServiceOverhead == 20 + 2

\* (size_mb * 1024.0 * 1024.0) as usize: the cast truncates and saturates
size_bytes(size_mb) ==
    IF size_mb <= 0 THEN 0 ELSE (size_mb * BytesPerMb) \div SizeMbDen

\* message.sender.len() + message.content.len() + overhead
message_size(message, overhead) ==
    Len(message.sender) + message.content_len + overhead

\* the size loop that closes the chunk when it is already over the budget
RECURSIVE chunk_by_size_loop_late(_, _, _, _, _, _)
chunk_by_size_loop_late(msgs, budget, overhead, done, current_chunk, current_size) ==
    IF msgs = <<>>
    THEN IF current_chunk # <<>> THEN Append(done, current_chunk) ELSE done
    ELSE LET message == Head(msgs)
             size == message_size(message, overhead)
         IN IF current_size > budget /\ current_chunk # <<>>
            THEN chunk_by_size_loop_late(Tail(msgs), budget, overhead,
                                    Append(done, current_chunk), <<message>>, size)
            ELSE chunk_by_size_loop_late(Tail(msgs), budget, overhead, done,
                                    Append(current_chunk, message),
                                    current_size + size)

\* the size loop that closes the chunk one overhead before the budget
RECURSIVE chunk_by_size_loop_early(_, _, _, _, _, _)
chunk_by_size_loop_early(msgs, budget, overhead, done, current_chunk, current_size) ==
    IF msgs = <<>>
    THEN IF current_chunk # <<>> THEN Append(done, current_chunk) ELSE done
    ELSE LET message == Head(msgs)
             size == message_size(message, overhead)
         IN IF current_size + size + overhead > budget /\ current_chunk # <<>>
            THEN chunk_by_size_loop_early(Tail(msgs), budget, overhead,
                                    Append(done, current_chunk), <<message>>, size)
            ELSE chunk_by_size_loop_early(Tail(msgs), budget, overhead, done,
                                    Append(current_chunk, message),
                                    current_size + size)

\* the loop of chunk_by_size, the same in utils.rs, repository.rs and
\* service.rs but for the overhead: `done` is chunks
RECURSIVE chunk_by_size_loop(_, _, _, _, _, _)
chunk_by_size_loop(msgs, budget, overhead, done, current_chunk, current_size) ==
    IF msgs = <<>>
    THEN IF current_chunk # <<>> THEN Append(done, current_chunk) ELSE done
    ELSE LET message == Head(msgs)
             size == message_size(message, overhead)
         IN IF current_size + size > budget /\ current_chunk # <<>>
            THEN chunk_by_size_loop(Tail(msgs), budget, overhead,
                                    Append(done, current_chunk), <<message>>, size)
            ELSE chunk_by_size_loop(Tail(msgs), budget, overhead, done,
                                    Append(current_chunk, message),
                                    current_size + size)

\* utils::chunk_by_size
chunk_by_size(msgs, size_mb) ==
    chunk_by_size_loop(msgs, size_bytes(size_mb), UtilsOverhead, <<>>, <<>>, 0)

\* Repository::chunk_by_size
Repository_chunk_by_size(msgs, size_mb) ==
    chunk_by_size_loop(msgs, size_bytes(size_mb), RepositoryOverhead,
                       <<>>, <<>>, 0)

\* MessageService::chunk_by_size
MessageService_chunk_by_size(msgs, size_mb) ==
    chunk_by_size_loop(msgs, size_bytes(size_mb), ServiceOverhead,
                       <<>>, <<>>, 0)

\* slice chunks that loses the shorter last chunk (chunks_exact)
RECURSIVE slice_chunks_exact(_, _)
slice_chunks_exact(msgs, chunk_size) ==
    IF Len(msgs) < chunk_size THEN <<>>
    ELSE <<SubSeq(msgs, 1, chunk_size)>>
         \o slice_chunks_exact(SubSeq(msgs, chunk_size + 1, Len(msgs)),
                               chunk_size)

\* <[T]>::chunks(chunk_size) for chunk_size > 0
RECURSIVE slice_chunks(_, _)
slice_chunks(msgs, chunk_size) ==
    IF msgs = <<>> THEN <<>>
    ELSE <<SubSeq(msgs, 1, Min(chunk_size, Len(msgs)))>>
         \o slice_chunks(SubSeq(msgs, Min(chunk_size, Len(msgs)) + 1,
                                Len(msgs)), chunk_size)

\* utils::chunk_by_lines: slice::chunks panics when chunk_size is 0
chunk_by_lines(msgs, lines_per_chunk) ==
    IF lines_per_chunk = 0
    THEN [outcome |-> "panic", chunks |-> <<>>]
    ELSE [outcome |-> "ok", chunks |-> slice_chunks(msgs, lines_per_chunk)]

\* MessageService::chunk_by_rows
MessageService_chunk_by_rows(msgs, rows) ==
    IF rows = 0
    THEN [outcome |-> "panic", chunks |-> <<>>]
    ELSE [outcome |-> "ok", chunks |-> slice_chunks(msgs, rows)]

\* the loop of Repository::chunk_by_lines from index i (0-based);
\* (i + 1) % lines_per_chunk panics when lines_per_chunk is 0
RECURSIVE Repository_chunk_by_lines_loop(_, _, _, _, _)
Repository_chunk_by_lines_loop(msgs, lines_per_chunk, i, done, current_chunk) ==
    IF i = Len(msgs)
    THEN [outcome |-> "ok",
          chunks |-> IF current_chunk # <<>> THEN Append(done, current_chunk)
                     ELSE done]
    ELSE IF lines_per_chunk = 0
    THEN [outcome |-> "panic", chunks |-> <<>>]
    ELSE LET pushed == Append(current_chunk, msgs[i + 1])
         IN IF (i + 1) % lines_per_chunk = 0 /\ pushed # <<>>
            THEN Repository_chunk_by_lines_loop(msgs, lines_per_chunk, i + 1,
                                                Append(done, pushed), <<>>)
            ELSE Repository_chunk_by_lines_loop(msgs, lines_per_chunk, i + 1,
                                                done, pushed)

\* Repository::chunk_by_lines
Repository_chunk_by_lines(msgs, lines_per_chunk) ==
    Repository_chunk_by_lines_loop(msgs, lines_per_chunk, 0, <<>>, <<>>)

\* .map(|m| m.content.len() + m.sender.len() + 50).sum::<usize>()
RECURSIVE sum_sizes(_)
sum_sizes(msgs) ==
    IF msgs = <<>> THEN 0
    ELSE message_size(Head(msgs), 50) + sum_sizes(Tail(msgs))

\* main.rs write_messages_to_files: chunk_size, for messages that are not
\* empty.  (size * bytes_per_mb / avg_msg_size).ceil() as usize is computed
\* on exact fractions, reduced by 16, the common factor of bytes_per_mb and
\* the denominator of size_mb; the cast of a negative number gives 0
main_chunk_size(msgs, size_mb, lines_per_chunk) ==
    IF size_mb # None
    THEN LET num == size_mb[1] * (BytesPerMb \div 16) * Len(msgs)
             den == (SizeMbDen \div 16) * sum_sizes(msgs)
             msgs_per_chunk == IF num <= 0 THEN 0
                               ELSE (num \div den)
                                        + (IF num % den = 0 THEN 0 ELSE 1)
         IN IF msgs_per_chunk < 1 THEN 1 ELSE msgs_per_chunk
    ELSE IF lines_per_chunk # None THEN lines_per_chunk[1]
    ELSE Len(msgs)

\* main.rs write_messages_to_files: messages.chunks(chunk_size), which
\* panics when chunk_size is 0
main_chunks(msgs, size_mb, lines_per_chunk) ==
    IF msgs = <<>> THEN [outcome |-> "ok", chunks |-> <<>>]
    ELSE IF main_chunk_size(msgs, size_mb, lines_per_chunk) = 0
    THEN [outcome |-> "panic", chunks |-> <<>>]
    ELSE [outcome |-> "ok",
          chunks |-> slice_chunks(msgs,
                         main_chunk_size(msgs, size_mb, lines_per_chunk))]

----------------------------------------------------------------------------
(* db.rs, repository.rs, service.rs: the export of a conversation *)

\* DbMessage::to_message (content is text.unwrap_or_default())
to_message(row) ==
    [sender |-> row.sender, timestamp |-> row.date_created,
     content_len |-> row.content_len]

to_messages(rows) == [i \in 1..Len(rows) |-> to_message(rows[i])]

\* Database::get_messages_by_contact_name:
\* SELECT * FROM messages WHERE sender = ? ORDER BY date_created ASC
get_messages_by_contact_name(rows, contact_name) ==
    to_messages(SelectSeq(rows, LAMBDA r : r.sender = contact_name))

\* Database::get_conversation_with_person:
\* ... WHERE (sender = ? OR is_from_me = ?) ORDER BY date_created ASC
get_conversation_with_person(rows, person_name) ==
    SelectSeq(rows, LAMBDA r : r.sender = person_name \/ r.is_from_me)

\* messages.retain(|msg| msg.sender == person_name) when only_contact
retain_contact(msgs, person_name, only) ==
    IF only THEN SelectSeq(msgs, LAMBDA m : m.sender = person_name) ELSE msgs

\* the chunks of Repository::export_conversation_by_person (lines 104-111)
export_chunks(msgs, size_mb, lines_per_chunk) ==
    IF size_mb # None
    THEN [outcome |-> "ok", chunks |-> Repository_chunk_by_size(msgs, size_mb[1])]
    ELSE IF lines_per_chunk # None
    THEN Repository_chunk_by_lines(msgs, lines_per_chunk[1])
    ELSE [outcome |-> "ok", chunks |-> <<msgs>>]

\* the trait export with no default budget: the whole sequence as one chunk
trait_export_chunks_whole(msgs, size_mb, lines_per_chunk) ==
    IF size_mb # None
    THEN [outcome |-> "ok", chunks |-> Repository_chunk_by_size(msgs, size_mb[1])]
    ELSE IF lines_per_chunk # None
    THEN Repository_chunk_by_lines(msgs, lines_per_chunk[1])
    ELSE [outcome |-> "ok", chunks |-> <<msgs>>]

\* the chunks of <Repository as MessageRepository>::
\* export_conversation_by_person (lines 401-411)
trait_export_chunks(msgs, size_mb, lines_per_chunk) ==
    IF size_mb # None
    THEN [outcome |-> "ok", chunks |-> Repository_chunk_by_size(msgs, size_mb[1])]
    ELSE IF lines_per_chunk # None
    THEN Repository_chunk_by_lines(msgs, lines_per_chunk[1])
    ELSE [outcome |-> "ok",
          chunks |-> Repository_chunk_by_size(msgs, default_chunk_size_mb)]

\* the chunks of MessageService::process_messages (lines 48-54)
service_chunks(msgs, size_mb, rows) ==
    IF size_mb # None
    THEN [outcome |-> "ok", chunks |-> MessageService_chunk_by_size(msgs, size_mb[1])]
    ELSE IF rows # None
    THEN MessageService_chunk_by_rows(msgs, rows[1])
    ELSE [outcome |-> "ok", chunks |-> <<msgs>>]

\* the file name of chunk chunk_num of n: no suffix when there is one chunk
base_name(n, chunk_num) ==
    [person |-> PersonName, chunk |-> IF n = 1 THEN 0 ELSE chunk_num]

\* the save_messages calls of the loop over chunks (one file per chunk)
save_each(cs, format) ==
    [i \in 1..Len(cs) |->
        [index |-> i, chunk |-> cs[i], format |-> format,
         path |-> base_name(Len(cs), i)]]

\* the save_messages calls of the trait export: a CSV and a TXT per chunk
save_each_csv_txt(cs) ==
    [k \in 1..(2 * Len(cs)) |->
        LET i == (k + 1) \div 2
        IN [index |-> i, chunk |-> cs[i],
            format |-> IF k % 2 = 1 THEN "Csv" ELSE "Txt",
            path |-> base_name(Len(cs), i)]]

\* the save_messages calls of MessageService::process_messages
save_each_service(cs, format) ==
    [i \in 1..Len(cs) |->
        [index |-> i, chunk |-> cs[i], format |-> format,
         path |-> [person |-> "chunk", chunk |-> i]]]

----------------------------------------------------------------------------
(* file_writer.rs, repository.rs, main.rs: what the exporters write.  A file
   is a sequence of characters; a sender, a formatted date and the name of
   a JSON field are each held as one character. *)

\* the bodies of the messages handed to an exporter
WContents == { <<>>, <<"a">>, <<"a", ",", "b">>, <<"\"">>, <<"\\">>, <<"\n">> }
WSender == <<"Phil">>

\* timestamp.format("%b %d, %Y %r"), e.g. Jan 01, 2025 09:30:00 AM
strftime(t) == IF t = 1 THEN <<"Jan 01", ",", " ", "2025 09:30:00 AM">>
               ELSE <<"Jan 02", ",", " ", "2025 09:30:00 AM">>

Digits == <<"0", "1", "2", "3", "4", "5", "6", "7", "8", "9">>

\* usize::to_string
RECURSIVE to_string(_)
to_string(n) ==
    IF n < 10 THEN <<Digits[n + 1]>>
    ELSE to_string(n \div 10) \o <<Digits[(n % 10) + 1]>>

\* the concatenation of what f writes for each message, in order
RECURSIVE concat(_)
concat(parts) == IF parts = <<>> THEN <<>> ELSE Head(parts) \o concat(Tail(parts))

for_each(msgs, f(_, _)) == concat([i \in 1..Len(msgs) |-> f(i, msgs[i])])

\* ---- TXT ----
\* writeln!(writer, "{}, {}, {}", ..) and writeln!(writer)
txt_line_blank(i, m) ==
    m.sender \o <<",", " ">> \o strftime(m.timestamp) \o <<",", " ">>
    \o m.content \o <<"\n", "\n">>
\* writeln!(writer, "{},{},{}", ..)
txt_line_tight(i, m) ==
    m.sender \o <<",">> \o strftime(m.timestamp) \o <<",">> \o m.content
    \o <<"\n">>

\* ---- CSV (csv::Writer with its default settings) ----
csv_needs_quotes(field) ==
    \E i \in 1..Len(field) : field[i] \in {",", "\"", "\n", "\r"}

RECURSIVE csv_double_quotes(_)
csv_double_quotes(field) ==
    IF field = <<>> THEN <<>>
    ELSE (IF Head(field) = "\"" THEN <<"\"", "\"">> ELSE <<Head(field)>>)
         \o csv_double_quotes(Tail(field))

csv_field(field) ==
    IF csv_needs_quotes(field)
    THEN <<"\"">> \o csv_double_quotes(field) \o <<"\"">>
    ELSE field

\* Writer::write_record: the fields joined by commas, then the terminator;
\* a record of one empty field is written as ""
RECURSIVE csv_join(_)
csv_join(fields) ==
    IF Len(fields) = 1 THEN csv_field(fields[1])
    ELSE csv_field(Head(fields)) \o <<",">> \o csv_join(Tail(fields))

write_record(fields) ==
    (IF fields = << <<>> >> THEN <<"\"", "\"">> ELSE csv_join(fields))
    \o <<"\n">>

csv_header_id == write_record(<< <<"ID">>, <<"Sender">>, <<"Datetime">>, <<"Message">> >>)
csv_header == write_record(<< <<"Sender">>, <<"Timestamp">>, <<"Content">> >>)

\* the record of a message with the ID column
csv_row_id(i, m) ==
    write_record(<<to_string(i), m.sender, strftime(m.timestamp), m.content>>)
\* the record of a message without it
csv_row(i, m) ==
    write_record(<<m.sender, strftime(m.timestamp), m.content>>)

\* ---- JSON (serde_json) ----
\* the characters of a string written as they are
json_escape_none(str) == str

\* the characters of a string as serde_json writes them: ", \ and control
\* characters escaped
RECURSIVE json_escape(_)
json_escape(str) ==
    IF str = <<>> THEN <<>>
    ELSE (CASE Head(str) = "\"" -> <<"\\", "\"">>
            [] Head(str) = "\\" -> <<"\\", "\\">>
            [] Head(str) = "\n" -> <<"\\", "n">>
            [] OTHER -> <<Head(str)>>)
         \o json_escape(Tail(str))

json_string(str) == <<"\"">> \o json_escape(str) \o <<"\"">>

\* the fields of json!({"sender": .., "timestamp": .., "content": ..}) in
\* the order of the map's keys
json_fields(m, date) ==
    << <<"content", m.content>>, <<"sender", m.sender>>, <<"timestamp", date>> >>

\* an object written by the compact formatter (also Display of a Value)
json_object(m, date) ==
    LET f == json_fields(m, date)
    IN <<"{">> \o json_string(<<f[1][1]>>) \o <<":">> \o json_string(f[1][2])
       \o <<",">> \o json_string(<<f[2][1]>>) \o <<":">> \o json_string(f[2][2])
       \o <<",">> \o json_string(<<f[3][1]>>) \o <<":">> \o json_string(f[3][2])
       \o <<"}">>

\* an object written by the pretty formatter as an element of an array
json_object_pretty(m, date) ==
    LET f == json_fields(m, date)
        ind == <<"\n", " ", " ", " ", " ">>
    IN <<"{">> \o ind \o json_string(<<f[1][1]>>) \o <<":", " ">> \o json_string(f[1][2])
       \o <<",">> \o ind \o json_string(<<f[2][1]>>) \o <<":", " ">> \o json_string(f[2][2])
       \o <<",">> \o ind \o json_string(<<f[3][1]>>) \o <<":", " ">> \o json_string(f[3][2])
       \o <<"\n", " ", " ", "}">>

\* serialize_seq .. end() of the compact serializer
json_array(msgs) ==
    <<"[">>
    \o for_each(msgs, LAMBDA i, m :
           (IF i > 1 THEN <<",">> ELSE <<>>)
           \o json_object(m, strftime(m.timestamp)))
    \o <<"]">>

\* to_writer_pretty: an empty array is [], the elements of another are
\* indented on lines of their own
json_array_pretty(msgs) ==
    IF msgs = <<>> THEN <<"[", "]">>
    ELSE <<"[">>
         \o for_each(msgs, LAMBDA i, m :
                (IF i > 1 THEN <<",">> ELSE <<>>) \o <<"\n", " ", " ">>
                \o json_object_pretty(m, strftime(m.timestamp)))
         \o <<"\n", "]">>

\* main.rs write_json_file: "[", each object on a line, "," on a line of
\* its own between two objects, "]"
json_array_lines(msgs) ==
    <<"[", "\n">>
    \o for_each(msgs, LAMBDA i, m :
           (IF i > 1 THEN <<",", "\n">> ELSE <<>>)
           \o json_object(m, strftime(m.timestamp)) \o <<"\n">>)
    \o <<"]", "\n">>

\* ---- the file system ----
\* A directory is the sequence of its components, a file name a sequence
\* of strings; fs.dirs are the directories that exist, fs.files the files
\* with what has reached them.
OutputDir == <<"out">>
Faults == {"none", "create", "write", "flush"}
NoFault == [at |-> 0, kind |-> "none"]

\* the extension of the files of a format
extension(format) ==
    CASE format = "Txt" -> ".txt" [] format = "Csv" -> ".csv"
      [] format = "Json" -> ".json"

\* std::fs::create_dir_all
create_dir_all(fs, dir) ==
    [fs EXCEPT !.dirs = @ \cup { SubSeq(dir, 1, k) : k \in 0..Len(dir) }]

put(files, path, content) ==
    { f \in files : f.path # path } \cup { [path |-> path, content |-> content] }

\* File::create(path), the writes of `output` through a buffered writer
\* and the end of the function.  File::create fails when the directory of
\* the path is missing or on fault "create"; on fault "write" the buffer
\* spills while the function still writes and the write fails, which `?`
\* returns; on fault "flush" the write of the buffered rest fails, which
\* is returned by an explicit flush()? and lost when the writer is only
\* dropped.
write_file(fs, path, output, explicit_flush, fault) ==
    IF path.dir \notin fs.dirs \/ fault = "create"
    THEN [result |-> "err", fs |-> fs]
    ELSE IF output # <<>> /\ fault = "write"
    THEN [result |-> "err", fs |-> [fs EXCEPT !.files = put(@, path, <<>>)]]
    ELSE IF output # <<>> /\ fault = "flush"
    THEN [result |-> IF explicit_flush THEN "err" ELSE "ok",
          fs |-> [fs EXCEPT !.files = put(@, path, <<>>)]]
    ELSE [result |-> "ok", fs |-> [fs EXCEPT !.files = put(@, path, output)]]

\* ---- file_writer.rs ----
\* write_messages_to_file over write_txt_file, write_csv_file and
\* write_json_file
write_messages_to_file(fs, msgs, format, path, fault) ==
    CASE format = "Txt" ->
            write_file(fs, path, for_each(msgs, txt_line_blank), TRUE, fault)
      [] format = "Csv" ->
            write_file(fs, path, csv_header_id \o for_each(msgs, csv_row_id),
                       TRUE, fault)
      [] format = "Json" ->
            write_file(fs, path, json_array_pretty(msgs), FALSE, fault)

write_messages_to_timestamped_dir(fs, msgs, format, output_dir, timestamp, fault) ==
    IF msgs = <<>> THEN [result |-> "ok", fs |-> fs]
    ELSE LET date_dir == output_dir \o <<timestamp>>
             file_dir == CASE format = "Txt" -> date_dir \o <<"chunks_txt">>
                           [] format = "Csv" -> date_dir \o <<"chunks_csv">>
                           [] format = "Json" -> date_dir
         IN write_messages_to_file(
                create_dir_all(create_dir_all(fs, date_dir), file_dir), msgs,
                format,
                [dir |-> file_dir, name |-> <<"chunk_1", extension(format)>>],
                fault)

\* ---- repository.rs: Repository::save_messages over save_txt, save_csv
\* and save_json ----
Repository_save_messages(fs, msgs, format, path, fault) ==
    CASE format = "Txt" ->
            write_file(fs, path, for_each(msgs, txt_line_tight), FALSE, fault)
      [] format = "Csv" ->
            write_file(fs, path, csv_header_id \o for_each(msgs, csv_row_id),
                       TRUE, fault)
      [] format = "Json" ->
            write_file(fs, path, json_array(msgs), FALSE, fault)

\* ---- repository.rs: <Repository as MessageRepository>::save_messages ----
MessageRepository_save_messages(fs, msgs, format, path, fault) ==
    CASE format = "Txt" ->
            write_file(fs, path, for_each(msgs, txt_line_blank), FALSE, fault)
      [] format = "Csv" ->
            write_file(fs, path, csv_header \o for_each(msgs, csv_row), TRUE, fault)
      [] format = "Json" ->
            write_file(fs, path, json_array(msgs), FALSE, fault)

\* ---- main.rs: write_txt_file, write_csv_file, write_json_file ----
main_write_file(fs, msgs, format, path, fault) ==
    CASE format = "Txt" ->
            write_file(fs, path, for_each(msgs, txt_line_blank), FALSE, fault)
      [] format = "Csv" ->
            write_file(fs, path, csv_header \o for_each(msgs, csv_row), TRUE, fault)
      [] format = "Json" ->
            write_file(fs, path, json_array_lines(msgs), FALSE, fault)

\* the fault that hits the writing of the i-th file
fault_at(fault, i) == IF fault.at = i THEN fault.kind ELSE "none"

\* the file of chunk chunk_num of n in Repository::export_conversation_by_person
chunk_path(output_path, n, chunk_num) ==
    [dir |-> output_path,
     name |-> IF n = 1 THEN <<PersonName>>
              ELSE <<PersonName, "_chunk_">> \o to_string(chunk_num)]

\* the loop over the chunks (repository.rs 115-132) from chunk i on:
\* save_messages(chunk, format, &base_path).await? ends it at the first Err
RECURSIVE save_chunks(_, _, _, _, _, _)
save_chunks(fs, cs, format, output_path, fault, i) ==
    IF i > Len(cs) THEN [result |-> "ok", fs |-> fs]
    ELSE LET r == Repository_save_messages(fs, cs[i], format,
                                           chunk_path(output_path, Len(cs), i),
                                           fault_at(fault, i))
         IN IF r.result = "err" THEN r
            ELSE save_chunks(r.fs, cs, format, output_path, fault, i + 1)

\* main.rs: export_conversation_by_person (lines 303-338) once the messages
\* are chunked: create_dir_all, then the export in TXT and the export in
\* CSV, both to output_path.  The fault counts the writes of the two exports
main_export_conversation_by_person(fs, cs, output_path, fault) ==
    LET txt_files == save_chunks(create_dir_all(fs, output_path), cs, "Txt",
                                 output_path, fault, 1)
    IN IF txt_files.result = "err" THEN txt_files
       ELSE save_chunks(txt_files.fs, cs, "Csv", output_path,
                        [fault EXCEPT !.at = @ - Len(cs)], 1)

----------------------------------------------------------------------------
(* The store as a state machine *)

StoreInit ==
    /\ messages = <<>>
    /\ processed = <<>>
    /\ clock = 0
    /\ op = "none"
    /\ arg_ids = <<>>
    /\ arg_version = "v1"
    /\ ret = <<>>
    /\ status = "ok"
    /\ pre_len = 0
    /\ arg_batch_size = 0
    /\ db_fault = None

\* Database::add_message: insert unless the imessage_id is already stored.
\* The k-th distinct imessage_id is named k.
AddMessage ==
    \E imessage_id \in 1..Min(Len(messages) + 1, MaxMessages),
       text \in {None} \cup {Some(t) : t \in Texts} :
        /\ messages' =
              IF \E i \in 1..Len(messages) : messages[i].imessage_id = imessage_id
              THEN messages
              ELSE Append(messages, [id |-> Len(messages) + 1,
                                     imessage_id |-> imessage_id,
                                     text |-> text])
        /\ op' = "add_message"
        /\ arg_ids' = <<>>
        /\ ret' = <<>>
        /\ status' = "ok"
        /\ pre_len' = Len(processed)
        /\ arg_batch_size' = 0
        /\ db_fault' = None
        /\ UNCHANGED <<processed, clock, arg_version>>

\* a direct call of Database::add_processed_message
AddProcessedMessage ==
    \E message_id \in MsgIds, version \in Versions, text \in Texts :
        LET added == add_processed_message(processed,
                         to_new_processed_message(process_text(text), message_id, version),
                         clock)
        IN /\ Len(added.store) <= MaxRows
           /\ processed' = added.store
           /\ clock' = IF added.inserted THEN later(clock) ELSE clock
           /\ op' = "add_processed_message"
           /\ arg_ids' = <<message_id>>
           /\ arg_version' = version
           /\ ret' = <<added.record>>
           /\ status' = "ok"
           /\ pre_len' = Len(processed)
           /\ arg_batch_size' = 0
           /\ db_fault' = None
           /\ UNCHANGED messages

\* a call of NlpProcessor::process_messages by a processor of some version
ProcessMessages ==
    \E message_ids \in Batches, version \in Versions :
        LET r == process_messages(messages, processed, clock, version,
                                  message_ids, <<>>)
        IN /\ Len(r.store) <= MaxRows
           /\ processed' = r.store
           /\ clock' = r.clock
           /\ op' = "process_messages"
           /\ arg_ids' = message_ids
           /\ arg_version' = version
           /\ ret' = r.ret
           /\ status' = r.status
           /\ pre_len' = Len(processed)
           /\ arg_batch_size' = 0
           /\ db_fault' = None
           /\ UNCHANGED messages

\* the process command of the CLI (main.rs process_messages): the ids of
\* the contact's messages or, without a name, the ids not yet processed
\* under the version, handed to the processor in batches
MainProcessMessages ==
    \E version \in Versions, named \in BOOLEAN, batch_size \in 0..MaxBatch,
       fault \in {None} \cup {Some(k) : k \in 1..MaxMessages} :
        LET message_ids == IF named THEN get_messages_ids(messages)
                           ELSE get_unprocessed_message_ids(messages, processed,
                                                            version)
            r == process_batches(messages, processed, clock, version,
                                 message_ids, effective_batch_size(batch_size),
                                 fault)
        IN /\ Len(r.store) <= MaxRows
           /\ processed' = r.store
           /\ clock' = r.clock
           /\ op' = "main::process_messages"
           /\ arg_ids' = message_ids
           /\ arg_version' = version
           /\ ret' = r.ret
           /\ status' = r.status
           /\ pre_len' = Len(processed)
           /\ arg_batch_size' = effective_batch_size(batch_size)
           /\ db_fault' = IF r.status = "err" THEN fault ELSE None
           /\ UNCHANGED messages

\* time passes between two calls
Tick ==
    /\ clock < MaxClock
    /\ clock' = clock + 1
    /\ UNCHANGED <<messages, processed, op, arg_ids, arg_version, ret, status,
                   pre_len, arg_batch_size, db_fault>>

ChunkIdle ==
    /\ conversation = <<>>
    /\ call = "none"
    /\ size_arg = None
    /\ lines_arg = None
    /\ only_contact = FALSE
    /\ exported = <<>>
    /\ chunks = <<>>
    /\ outcome = "ok"
    /\ format_arg = "Txt"
    /\ written = <<>>

\* the file system before a call: the working directory, and the output
\* directory if it exists
initial_fs(exists) ==
    [dirs |-> {<<>>} \cup (IF exists THEN {OutputDir} ELSE {}), files |-> {}]

WriteIdle ==
    /\ out_messages = <<>>
    /\ out_dir_exists = TRUE
    /\ disk = initial_fs(TRUE)
    /\ wcall = "none"
    /\ wformat = "Txt"
    /\ wfault = NoFault
    /\ wresult = "ok"
    /\ wintended = {}

SentimentIdle ==
    /\ stext = <<>>
    /\ scall = "none"
    /\ sscore = None

RaceIdle ==
    /\ rstore = <<>>
    /\ runique = FALSE
    /\ rcall = <<>>

TextIdle ==
    /\ ctext = <<>>
    /\ ccall = "none"
    /\ cenglish = FALSE
    /\ cout = <<>>

Init == StoreInit /\ ChunkIdle /\ WriteIdle /\ SentimentIdle /\ TextIdle /\ RaceIdle

Next ==
    \/ AddMessage /\ UNCHANGED <<chunkVars, writeVars, sentVars, textVars, raceVars>>
    \/ AddProcessedMessage /\ UNCHANGED <<chunkVars, writeVars, sentVars, textVars, raceVars>>
    \/ ProcessMessages /\ UNCHANGED <<chunkVars, writeVars, sentVars, textVars, raceVars>>
    \/ MainProcessMessages /\ UNCHANGED <<chunkVars, writeVars, sentVars, textVars, raceVars>>
    \/ Tick /\ UNCHANGED <<chunkVars, writeVars, sentVars, textVars, raceVars>>

Spec == Init /\ [][Next]_vars

\* The commands of the CLI alone: processed rows are stored by
\* NlpProcessor::process_messages only (nlp.rs:375 is the one call of
\* add_processed_message in the program)
CliNext ==
    \/ AddMessage /\ UNCHANGED <<chunkVars, writeVars, sentVars, textVars, raceVars>>
    \/ ProcessMessages /\ UNCHANGED <<chunkVars, writeVars, sentVars, textVars, raceVars>>
    \/ MainProcessMessages /\ UNCHANGED <<chunkVars, writeVars, sentVars, textVars, raceVars>>
    \/ Tick /\ UNCHANGED <<chunkVars, writeVars, sentVars, textVars, raceVars>>

CliSpec == Init /\ [][CliNext]_vars

----------------------------------------------------------------------------
(* Chunking and export as a state machine: a conversation is drawn, one
   chunking function or export is called on it, and the result is kept
   until the next call *)

SizeOptions == {None} \cup {Some(x) : x \in SizeMbs}
LinesOptions == {None} \cup {Some(n) : n \in 0..MaxLines}
\* the (size, count) selections of an export: none, either one, or both
\* (the count is then not looked at)
Strategies ==
    { st \in SizeOptions \X LinesOptions :
        st[1] = None \/ st[2] \in {None, Some(1)} }

\* the rows of table messages, kept in date_created order
Conversations ==
    UNION { { [i \in 1..n |-> [sender |-> who[i],
                               is_from_me |-> (who[i] # PersonName),
                               date_created |-> i,
                               content_len |-> len[i]]] :
                who \in [1..n -> Senders], len \in [1..n -> ContentLens] } :
            n \in 0..MaxLen }

ChunkInit ==
    /\ conversation \in Conversations
    /\ call = "none"
    /\ size_arg = None
    /\ lines_arg = None
    /\ only_contact = FALSE
    /\ exported = <<>>
    /\ chunks = <<>>
    /\ outcome = "ok"
    /\ format_arg = "Txt"
    /\ written = <<>>

\* the record of a call and of what it did
Called(name, size_mb, lines, only, format, msgs, result, saves) ==
    /\ call = "none"
    /\ call' = name
    /\ size_arg' = size_mb
    /\ lines_arg' = lines
    /\ only_contact' = only
    /\ format_arg' = format
    /\ exported' = msgs
    /\ outcome' = result.outcome
    /\ chunks' = result.chunks
    /\ written' = IF result.outcome = "ok" THEN saves ELSE <<>>
    /\ UNCHANGED conversation

UtilsChunkBySize ==
    \E size_mb \in SizeMbs :
        LET msgs == to_messages(conversation)
        IN Called("utils::chunk_by_size", Some(size_mb), None, FALSE, "Txt", msgs,
                  [outcome |-> "ok", chunks |-> chunk_by_size(msgs, size_mb)], <<>>)

RepositoryChunkBySize ==
    \E size_mb \in SizeMbs :
        LET msgs == to_messages(conversation)
        IN Called("Repository::chunk_by_size", Some(size_mb), None, FALSE, "Txt",
                  msgs,
                  [outcome |-> "ok", chunks |-> Repository_chunk_by_size(msgs, size_mb)],
                  <<>>)

ServiceChunkBySize ==
    \E size_mb \in SizeMbs :
        LET msgs == to_messages(conversation)
        IN Called("MessageService::chunk_by_size", Some(size_mb), None, FALSE,
                  "Txt", msgs,
                  [outcome |-> "ok",
                   chunks |-> MessageService_chunk_by_size(msgs, size_mb)],
                  <<>>)

UtilsChunkByLines ==
    \E n \in 0..MaxLines :
        LET msgs == to_messages(conversation)
        IN Called("utils::chunk_by_lines", None, Some(n), FALSE, "Txt", msgs,
                  chunk_by_lines(msgs, n), <<>>)

RepositoryChunkByLines ==
    \E n \in 0..MaxLines :
        LET msgs == to_messages(conversation)
        IN Called("Repository::chunk_by_lines", None, Some(n), FALSE, "Txt", msgs,
                  Repository_chunk_by_lines(msgs, n), <<>>)

ServiceChunkByRows ==
    \E n \in 0..MaxLines :
        LET msgs == to_messages(conversation)
        IN Called("MessageService::chunk_by_rows", None, Some(n), FALSE, "Txt",
                  msgs, MessageService_chunk_by_rows(msgs, n), <<>>)

\* Repository::export_conversation_by_person (repository.rs 55-135)
RepositoryExport ==
    \E st \in Strategies, only \in BOOLEAN, format \in OutputFormats :
        LET size_mb == st[1]
            lines == st[2]
            db_messages == get_messages_by_contact_name(conversation, PersonName)
            msgs == retain_contact(db_messages, PersonName, only)
            result == export_chunks(msgs, size_mb, lines)
        IN IF db_messages = <<>>
           THEN Called("Repository::export_conversation_by_person", size_mb,
                       lines, only, format, <<>>,
                       [outcome |-> "ok", chunks |-> <<>>], <<>>)
           ELSE Called("Repository::export_conversation_by_person", size_mb,
                       lines, only, format, msgs, result,
                       save_each(result.chunks, format))

\* <Repository as MessageRepository>::export_conversation_by_person
\* (repository.rs 354-454); its format argument is not used
TraitExport ==
    \E st \in Strategies, only \in BOOLEAN :
        LET size_mb == st[1]
            lines == st[2]
            db_messages == get_conversation_with_person(conversation, PersonName)
            msgs == retain_contact(to_messages(db_messages), PersonName, only)
            result == trait_export_chunks(msgs, size_mb, lines)
        IN IF db_messages = <<>>
           THEN Called("MessageRepository::export_conversation_by_person",
                       size_mb, lines, only, "Txt", <<>>,
                       [outcome |-> "ok", chunks |-> <<>>], <<>>)
           ELSE Called("MessageRepository::export_conversation_by_person",
                       size_mb, lines, only, "Txt", msgs, result,
                       save_each_csv_txt(result.chunks))

\* MessageService::process_messages (service.rs 18-67) over a Repository;
\* the cache holds what fetch_messages returned
ServiceExport ==
    \E st \in Strategies, format \in OutputFormats :
        LET size_mb == st[1]
            rows == st[2]
            msgs == get_messages_by_contact_name(conversation, PersonName)
            result == service_chunks(msgs, size_mb, rows)
        IN IF size_mb = None /\ rows = None
           THEN Called("MessageService::process_messages", size_mb, rows, FALSE,
                       format, msgs, [outcome |-> "ok", chunks |-> <<msgs>>],
                       <<[index |-> 1, chunk |-> msgs, format |-> format,
                          path |-> [person |-> "output_path", chunk |-> 0]]>>)
           ELSE Called("MessageService::process_messages", size_mb, rows, FALSE,
                       format, msgs, result,
                       save_each_service(result.chunks, format))

\* main.rs write_messages_to_files (lines 478-534), called by the import
\* and query commands; the file of chunk i is chunk_i.<format>
MainWriteMessagesToFiles ==
    \E st \in Strategies, format \in OutputFormats :
        LET msgs == to_messages(conversation)
            result == main_chunks(msgs, st[1], st[2])
        IN Called("main::write_messages_to_files", st[1], st[2], FALSE,
                  format, msgs, result,
                  save_each_service(result.chunks, format))

\* the call has returned; the next one starts from the same conversation
Return ==
    /\ call # "none"
    /\ call' = "none"
    /\ size_arg' = None
    /\ lines_arg' = None
    /\ only_contact' = FALSE
    /\ exported' = <<>>
    /\ chunks' = <<>>
    /\ outcome' = "ok"
    /\ format_arg' = "Txt"
    /\ written' = <<>>
    /\ UNCHANGED conversation

ChunkNext ==
    \/ UtilsChunkBySize /\ UNCHANGED <<storeVars, writeVars, sentVars, textVars, raceVars>>
    \/ RepositoryChunkBySize /\ UNCHANGED <<storeVars, writeVars, sentVars, textVars, raceVars>>
    \/ ServiceChunkBySize /\ UNCHANGED <<storeVars, writeVars, sentVars, textVars, raceVars>>
    \/ UtilsChunkByLines /\ UNCHANGED <<storeVars, writeVars, sentVars, textVars, raceVars>>
    \/ RepositoryChunkByLines /\ UNCHANGED <<storeVars, writeVars, sentVars, textVars, raceVars>>
    \/ ServiceChunkByRows /\ UNCHANGED <<storeVars, writeVars, sentVars, textVars, raceVars>>
    \/ RepositoryExport /\ UNCHANGED <<storeVars, writeVars, sentVars, textVars, raceVars>>
    \/ TraitExport /\ UNCHANGED <<storeVars, writeVars, sentVars, textVars, raceVars>>
    \/ ServiceExport /\ UNCHANGED <<storeVars, writeVars, sentVars, textVars, raceVars>>
    \/ MainWriteMessagesToFiles
           /\ UNCHANGED <<storeVars, writeVars, sentVars, textVars, raceVars>>
    \/ Return /\ UNCHANGED <<storeVars, writeVars, sentVars, textVars, raceVars>>

ChunkSpecInit ==
    StoreInit /\ ChunkInit /\ WriteIdle /\ SentimentIdle /\ TextIdle /\ RaceIdle

ChunkSpec == ChunkSpecInit /\ [][ChunkNext]_vars

----------------------------------------------------------------------------
(* Writing files as a state machine: messages and a file system are drawn,
   one exporter is called, and the files are kept until it has returned *)

\* most messages handed to an exporter
MaxWrite == 2

WMessages ==
    UNION { { [i \in 1..n |-> [sender |-> WSender, timestamp |-> i,
                               content |-> c[i]]] :
                c \in [1..n -> WContents] } : n \in 0..MaxWrite }

WriteInit ==
    /\ out_messages \in WMessages
    /\ out_dir_exists \in BOOLEAN
    /\ disk = initial_fs(out_dir_exists)
    /\ wcall = "none"
    /\ wformat = "Txt"
    /\ wfault = NoFault
    /\ wresult = "ok"
    /\ wintended = {}

\* the path handed to an exporter that takes one
OutputFile(format) == [dir |-> OutputDir, name |-> <<"messages", extension(format)>>]

FaultsAt(n) == {NoFault} \cup { [at |-> i, kind |-> k] :
                                  i \in 1..n, k \in Faults \ {"none"} }

\* the record of a call: r is what it did, clean what it does when nothing
\* fails
WCalled(name, format, fault, r, clean) ==
    /\ wcall = "none"
    /\ wcall' = name
    /\ wformat' = format
    /\ wfault' = fault
    /\ wresult' = r.result
    /\ disk' = r.fs
    /\ wintended' = clean.fs.files
    /\ UNCHANGED <<out_messages, out_dir_exists>>

WriteMessagesToFile ==
    \E format \in OutputFormats, fault \in FaultsAt(1) :
        WCalled("file_writer::write_messages_to_file", format, fault,
                write_messages_to_file(disk, out_messages, format,
                                       OutputFile(format), fault.kind),
                write_messages_to_file(disk, out_messages, format,
                                       OutputFile(format), "none"))

WriteMessagesToTimestampedDir ==
    \E format \in OutputFormats, fault \in FaultsAt(1) :
        WCalled("file_writer::write_messages_to_timestamped_dir", format, fault,
                write_messages_to_timestamped_dir(disk, out_messages, format,
                                                  OutputDir, "ts", fault.kind),
                write_messages_to_timestamped_dir(disk, out_messages, format,
                                                  OutputDir, "ts", "none"))

RepositorySaveMessages ==
    \E format \in OutputFormats, fault \in FaultsAt(1) :
        WCalled("Repository::save_messages", format, fault,
                Repository_save_messages(disk, out_messages, format,
                                         OutputFile(format), fault.kind),
                Repository_save_messages(disk, out_messages, format,
                                         OutputFile(format), "none"))

MessageRepositorySaveMessages ==
    \E format \in OutputFormats, fault \in FaultsAt(1) :
        WCalled("MessageRepository::save_messages", format, fault,
                MessageRepository_save_messages(disk, out_messages, format,
                                                OutputFile(format), fault.kind),
                MessageRepository_save_messages(disk, out_messages, format,
                                                OutputFile(format), "none"))

\* one of write_txt_file, write_csv_file and write_json_file of main.rs
MainWriteFile ==
    \E format \in OutputFormats, fault \in FaultsAt(1) :
        WCalled("main::write_file", format, fault,
                main_write_file(disk, out_messages, format, OutputFile(format),
                                fault.kind),
                main_write_file(disk, out_messages, format, OutputFile(format),
                                "none"))

\* the chunks of out_messages by count, written by the loop of
\* Repository::export_conversation_by_person
RepositoryExportChunks ==
    \E lines \in 1..MaxWrite, format \in OutputFormats,
       fault \in FaultsAt(MaxWrite) :
        LET cs == Repository_chunk_by_lines(out_messages, lines).chunks
        IN WCalled("Repository::export_conversation_by_person", format, fault,
                   save_chunks(disk, cs, format, OutputDir, fault, 1),
                   save_chunks(disk, cs, format, OutputDir, NoFault, 1))

MainExportConversationByPerson ==
    \E lines \in 1..MaxWrite, fault \in FaultsAt(2 * MaxWrite) :
        LET cs == Repository_chunk_by_lines(out_messages, lines).chunks
        IN WCalled("main::export_conversation_by_person", "Csv", fault,
                   main_export_conversation_by_person(disk, cs, OutputDir, fault),
                   main_export_conversation_by_person(disk, cs, OutputDir,
                                                      NoFault))

\* the call has returned and the files are removed
WReturn ==
    /\ wcall # "none"
    /\ wcall' = "none"
    /\ wformat' = "Txt"
    /\ wfault' = NoFault
    /\ wresult' = "ok"
    /\ disk' = initial_fs(out_dir_exists)
    /\ wintended' = {}
    /\ UNCHANGED <<out_messages, out_dir_exists>>

WriteNext ==
    \/ WriteMessagesToFile /\ UNCHANGED <<storeVars, chunkVars, sentVars, textVars, raceVars>>
    \/ WriteMessagesToTimestampedDir /\ UNCHANGED <<storeVars, chunkVars, sentVars, textVars, raceVars>>
    \/ RepositorySaveMessages /\ UNCHANGED <<storeVars, chunkVars, sentVars, textVars, raceVars>>
    \/ MessageRepositorySaveMessages /\ UNCHANGED <<storeVars, chunkVars, sentVars, textVars, raceVars>>
    \/ MainWriteFile /\ UNCHANGED <<storeVars, chunkVars, sentVars, textVars, raceVars>>
    \/ RepositoryExportChunks /\ UNCHANGED <<storeVars, chunkVars, sentVars, textVars, raceVars>>
    \/ MainExportConversationByPerson
           /\ UNCHANGED <<storeVars, chunkVars, sentVars, textVars, raceVars>>
    \/ WReturn /\ UNCHANGED <<storeVars, chunkVars, sentVars, textVars, raceVars>>

WriteSpecInit ==
    StoreInit /\ ChunkIdle /\ WriteInit /\ SentimentIdle /\ TextIdle /\ RaceIdle

WriteSpec == WriteSpecInit /\ [][WriteNext]_vars

----------------------------------------------------------------------------
(* Sentiment as a state machine: a text is drawn, then scored over and
   over, by analyze_sentiment itself or through process_text. *)

Vocabulary ==
    { "good", "Good", "great", "bad", "awful", "very", "barely", "not",
      "sky" }

RECURSIVE WordsOfLen(_)
WordsOfLen(n) ==
    IF n = 0 THEN { <<>> }
    ELSE { Append(t, w) : t \in WordsOfLen(n - 1), w \in Vocabulary }

WordTexts == UNION { WordsOfLen(n) : n \in 0..MaxWords }

SentimentInit ==
    /\ stext \in WordTexts
    /\ scall = "none"
    /\ sscore = None

AnalyzeSentiment ==
    /\ scall = "none"
    /\ scall' = "analyze_sentiment"
    /\ sscore' = Some(analyze_sentiment(stext))
    /\ UNCHANGED stext

ProcessText ==
    /\ scall = "none"
    /\ scall' = "process_text"
    /\ sscore' = sentiment_score(stext)
    /\ UNCHANGED stext

\* the caller is handed the score
SReturn ==
    /\ scall # "none"
    /\ scall' = "none"
    /\ sscore' = None
    /\ UNCHANGED stext

SentimentNext ==
    \/ AnalyzeSentiment
           /\ UNCHANGED <<storeVars, chunkVars, writeVars, textVars, raceVars>>
    \/ ProcessText /\ UNCHANGED <<storeVars, chunkVars, writeVars, textVars, raceVars>>
    \/ SReturn /\ UNCHANGED <<storeVars, chunkVars, writeVars, textVars, raceVars>>

SentimentSpecInit ==
    StoreInit /\ ChunkIdle /\ WriteIdle /\ SentimentInit /\ TextIdle /\ RaceIdle

SentimentSpec == SentimentSpecInit /\ [][SentimentNext]_vars

----------------------------------------------------------------------------
(* Text analysis as a state machine: a text is drawn, then cleaned,
   tokenized or analysed over and over. *)

\* the pieces the cleaned texts are put together from
CleanPieces ==
    { <<"H">>, <<"i">>, <<"w", "w", "w", ".">>, <<" ">>, <<"1">>, <<"_">>,
      <<"U+1F600">>, <<"U+1D400">> }

\* the pieces the tokenized texts are put together from
TokenPieces ==
    { <<"t", "h", "i", "s">>, <<"t", "H", "i", "s">>, <<"h", "i">>,
      <<".">>, <<" ">>, <<"\t">> }

RECURSIVE PiecesOfLen(_, _)
PiecesOfLen(pieces, n) ==
    IF n = 0 THEN { <<>> }
    ELSE { t \o p : t \in PiecesOfLen(pieces, n - 1), p \in pieces }

CharTexts ==
    UNION { PiecesOfLen(CleanPieces, n) \cup PiecesOfLen(TokenPieces, n) :
                n \in 0..MaxPieces }

TextInit ==
    /\ ctext \in CharTexts
    /\ ccall = "none"
    /\ cenglish = FALSE
    /\ cout = <<>>

CleanText ==
    /\ ccall = "none"
    /\ ccall' = "clean_text"
    /\ cout' = clean_text(ctext)
    /\ UNCHANGED <<ctext, cenglish>>

Tokenize ==
    /\ ccall = "none"
    /\ ccall' = "tokenize"
    /\ cout' = tokenize(ctext)
    /\ UNCHANGED <<ctext, cenglish>>

ProcessTextEntities ==
    /\ ccall = "none"
    /\ \E english \in BOOLEAN :
           /\ cenglish' = english
           /\ cout' = process_text_entities(ctext, english)
    /\ ccall' = "process_text"
    /\ UNCHANGED ctext

\* the caller is handed the result
TReturn ==
    /\ ccall # "none"
    /\ ccall' = "none"
    /\ cenglish' = FALSE
    /\ cout' = <<>>
    /\ UNCHANGED ctext

TextNext ==
    \/ CleanText /\ UNCHANGED <<storeVars, chunkVars, writeVars, sentVars, raceVars>>
    \/ Tokenize /\ UNCHANGED <<storeVars, chunkVars, writeVars, sentVars, raceVars>>
    \/ ProcessTextEntities
           /\ UNCHANGED <<storeVars, chunkVars, writeVars, sentVars, raceVars>>
    \/ TReturn /\ UNCHANGED <<storeVars, chunkVars, writeVars, sentVars, raceVars>>

TextSpecInit ==
    StoreInit /\ ChunkIdle /\ WriteIdle /\ SentimentIdle /\ TextInit /\ RaceIdle

TextSpec == TextSpecInit /\ [][TextNext]_vars

----------------------------------------------------------------------------
(* Two callers of the store at once.  Database is a pool of connections
   (db.rs:44-47) and every statement is its own transaction, so the
   statements of two callers interleave.  A caller runs process_messages
   for one id, or add_processed_message. *)

Callers == {1, 2}
Entries == {"process_messages", "add_processed_message"}

\* the record a caller stores: the analysis of the body of its message
race_new_processed(c) ==
    to_new_processed_message(process_text(<<"H", "i", "!">>), c.message_id,
                             c.version)

RaceInit ==
    /\ rstore = <<>>
    /\ runique \in BOOLEAN
    /\ rcall \in [Callers -> [entry : Entries, message_id : 1..MaxMessages,
                              version : Versions, pc : {"start"},
                              existing : {None}, ret : {None},
                              status : {"ok"}]]

\* process_messages: get_processed_message, and the existing record is
\* returned (nlp.rs:345-351)
RaceGetProcessed ==
    \E c \in Callers :
        /\ rcall[c].entry = "process_messages"
        /\ rcall[c].pc = "start"
        /\ LET existing == get_processed_message(rstore, rcall[c].message_id,
                                                 rcall[c].version)
           IN rcall' = [rcall EXCEPT ![c].pc = IF existing # None THEN "done"
                                               ELSE "analysed",
                                     ![c].ret = existing]
        /\ UNCHANGED <<rstore, runique>>

\* add_processed_message: the SELECT
RaceSelect ==
    \E c \in Callers :
        /\ \/ rcall[c].entry = "add_processed_message" /\ rcall[c].pc = "start"
           \/ rcall[c].pc = "analysed"
        /\ rcall' = [rcall EXCEPT ![c].pc = "selected",
                                  ![c].existing =
                                      select_processed(rstore,
                                                       race_new_processed(rcall[c]))]
        /\ UNCHANGED <<rstore, runique>>

\* add_processed_message: the existing record is returned, or the INSERT
RaceInsert ==
    \E c \in Callers :
        /\ rcall[c].pc = "selected"
        /\ IF rcall[c].existing # None
           THEN /\ rcall' = [rcall EXCEPT ![c].pc = "done",
                                          ![c].ret = rcall[c].existing]
                /\ UNCHANGED rstore
           ELSE LET r == insert_processed(rstore, race_new_processed(rcall[c]),
                                          0, runique)
                IN /\ rstore' = r.store
                   /\ rcall' = [rcall EXCEPT ![c].pc = "done",
                                             ![c].ret = r.record,
                                             ![c].status = r.status]
        /\ UNCHANGED runique

RaceNext ==
    \/ RaceGetProcessed
           /\ UNCHANGED <<storeVars, chunkVars, writeVars, sentVars, textVars>>
    \/ RaceSelect
           /\ UNCHANGED <<storeVars, chunkVars, writeVars, sentVars, textVars>>
    \/ RaceInsert
           /\ UNCHANGED <<storeVars, chunkVars, writeVars, sentVars, textVars>>

RaceSpecInit ==
    /\ StoreInit /\ ChunkIdle /\ WriteIdle /\ SentimentIdle /\ TextIdle
    /\ RaceInit

RaceSpec == RaceSpecInit /\ [][RaceNext]_vars

----------------------------------------------------------------------------
(* Properties of the processed-message store *)

\* the rows of processed_messages for a message under a version
RowsFor(message_id, version) ==
    { i \in 1..Len(processed) :
        /\ processed[i].original_message_id = message_id
        /\ processed[i].processing_version = version }

\* the stored message with this id has a body
HasText(message_id) ==
    \E i \in 1..Len(messages) :
        messages[i].id = message_id /\ messages[i].text # None

Resolves(message_id) == \E i \in 1..Len(messages) : messages[i].id = message_id

\* C1: after any sequence of process_messages and add_processed_message
\* calls the table holds at most one row for each pair
\* (original_message_id, processing_version).
C1_OneRecordPerMessageVersion ==
    \A i, j \in 1..Len(processed) :
        (/\ processed[i].original_message_id = processed[j].original_message_id
         /\ processed[i].processing_version = processed[j].processing_version)
        => i = j

\* a repeated add_processed_message found the row and inserted nothing
C1_Witness ==
    /\ op = "add_processed_message"
    /\ pre_len = Len(processed)
    /\ Len(processed) >= 1
    /\ RowsFor(arg_ids[1], arg_version) # {}

\* C2: process_messages called again with the same ids and version (with
\* nothing but the passing of time in between) returns the same records and
\* the same Result, and leaves the table as the first run left it.
C2_SecondRunIdentical ==
    [][(/\ op = "process_messages"
        /\ op' = "process_messages"
        /\ arg_ids' = arg_ids
        /\ arg_version' = arg_version)
       => (/\ ret' = ret
           /\ status' = status
           /\ processed' = processed)]_vars

\* a run that returned stored records and inserted nothing
C2_Witness ==
    /\ op = "process_messages"
    /\ status = "ok"
    /\ Len(ret) = Len(arg_ids)
    /\ ret # <<>>
    /\ pre_len = Len(processed)

\* C3: no step changes or removes a stored row; and a successful
\* process_messages under a version leaves, for every id of the batch whose
\* message has text, a row of that version which is another row than the
\* rows the message has under other versions.
C3_VersionIsolation ==
    [][/\ Len(processed') >= Len(processed)
       /\ \A i \in 1..Len(processed) : processed'[i] = processed[i]
       /\ (op' = "process_messages" /\ status' = "ok")
          => \A k \in 1..Len(arg_ids') :
                HasText(arg_ids'[k])
                => \E j \in 1..Len(processed') :
                      /\ processed'[j].original_message_id = arg_ids'[k]
                      /\ processed'[j].processing_version = arg_version'
                      /\ \A i \in 1..Len(processed) :
                            processed[i].processing_version # arg_version'
                            => i # j
      ]_vars

\* a message analysed under a second version: one row per version, the
\* second created by the last call
C3_Witness ==
    /\ op = "process_messages"
    /\ status = "ok"
    /\ pre_len = 1
    /\ Len(processed) = 2
    /\ processed[1].original_message_id = processed[2].original_message_id
    /\ processed[1].processing_version # processed[2].processing_version

\* C9 as stated: the list process_messages returns holds exactly the
\* rows this call created.
C9_ReturnsOnlyNewRecords ==
    (op = "process_messages" /\ status = "ok")
    => ret = SubSeq(processed, pre_len + 1, Len(processed))

\* the stored rows, in the order of ids, for the ids that have a row under
\* the version
RECURSIVE StoredRecords(_, _)
StoredRecords(ids, version) ==
    IF ids = <<>> THEN <<>>
    ELSE LET rows == RowsFor(Head(ids), version)
         IN (IF rows = {} THEN <<>>
             ELSE <<processed[CHOOSE i \in rows : \A j \in rows : i <= j]>>)
            \o StoredRecords(Tail(ids), version)

\* C9 amended: a successful process_messages returns, for each id of the
\* batch in order, the row stored for (id, version), whether this call
\* created it or it was there before; it leaves out only the ids whose
\* message has no text and no row.  A failed call returns no list.
C9_ReturnsStoredRecords ==
    op = "process_messages"
    => IF status = "ok"
       THEN /\ ret = StoredRecords(arg_ids, arg_version)
            /\ \A k \in 1..Len(arg_ids) :
                  RowsFor(arg_ids[k], arg_version) = {}
                  => (Resolves(arg_ids[k]) /\ ~HasText(arg_ids[k]))
       ELSE ret = <<>>

\* a batch that returned one row that was there before and one it created
C9_Witness ==
    /\ op = "process_messages"
    /\ status = "ok"
    /\ Len(ret) = 2
    /\ ret[1].id <= pre_len
    /\ ret[2].id > pre_len

\* C10 as stated: an id that does not resolve is left out and the batch
\* still succeeds, returning the records of its other ids.
C10_UnresolvedIdOmitted ==
    op = "process_messages"
    => /\ status = "ok"
       /\ \A k \in 1..Len(arg_ids) :
             HasText(arg_ids[k])
             => \E i \in 1..Len(ret) : ret[i].original_message_id = arg_ids[k]

\* C11: a process_messages call stores no row for a message whose body is
\* absent, whatever the version, and returns no record for it unless a row
\* for it and the version was there before the call; the absent body is no
\* error (a call whose ids all resolve succeeds), and a successful call
\* still returns a record for every id of the batch whose message has a
\* body.
C11_AbsentTextSkipped ==
    op = "process_messages"
    => /\ \A i \in (pre_len + 1)..Len(processed) :
             HasText(processed[i].original_message_id)
       /\ \A i \in 1..Len(ret) :
             (Resolves(ret[i].original_message_id)
              /\ ~HasText(ret[i].original_message_id))
             => ret[i].id <= pre_len
       /\ (\A k \in 1..Len(arg_ids) : Resolves(arg_ids[k])) => status = "ok"
       /\ status = "ok"
          => \A k \in 1..Len(arg_ids) :
                HasText(arg_ids[k])
                => /\ RowsFor(arg_ids[k], arg_version) # {}
                   /\ \E i \in 1..Len(ret) :
                         ret[i].original_message_id = arg_ids[k]

\* a batch of a message without a body followed by a message with one:
\* the call succeeded, stored and returned one record, that of the second
C11_Witness ==
    /\ op = "process_messages"
    /\ status = "ok"
    /\ Len(arg_ids) = 2
    /\ Resolves(arg_ids[1]) /\ ~HasText(arg_ids[1])
    /\ HasText(arg_ids[2])
    /\ \A v \in Versions : RowsFor(arg_ids[1], v) = {}
    /\ Len(processed) = pre_len + 1
    /\ Len(ret) = 1
    /\ ret[1].original_message_id = arg_ids[2]

\* C12: the list process_messages returns is ordered like the input list:
\* its records can be matched, one by one and in order, with positions of
\* the input list that hold their message ids and that increase.
C12_ReturnOrder ==
    op = "process_messages"
    => \E f \in [1..Len(ret) -> 1..Len(arg_ids)] :
          /\ \A i \in 1..Len(ret) : ret[i].original_message_id = arg_ids[f[i]]
          /\ \A i, j \in 1..Len(ret) : i < j => f[i] < f[j]

\* a call that returned the records of two different messages, the message
\* with the larger id asked for first
C12_Witness ==
    /\ op = "process_messages"
    /\ status = "ok"
    /\ Len(ret) = 2
    /\ arg_ids[1] > arg_ids[2]
    /\ ret[1].original_message_id = arg_ids[1]
    /\ ret[2].original_message_id = arg_ids[2]

\* the position in arg_ids at which the last process_messages call failed:
\* the first id that has no row under the version and resolves to no message
FailedAt ==
    CHOOSE k \in 1..Len(arg_ids) :
        /\ ~Resolves(arg_ids[k]) /\ RowsFor(arg_ids[k], arg_version) = {}
        /\ \A j \in 1..(k - 1) :
              Resolves(arg_ids[j]) \/ RowsFor(arg_ids[j], arg_version) # {}

\* C13: a failure does not roll back.  When process_messages fails at the
\* k-th id of its batch, every id before k whose message has a body has its
\* row in the table afterwards; when a run of the process command fails at
\* the p-th id of the run, the same holds for every id before p, those of
\* the earlier batches included.
C13_NoRollback ==
    /\ (op = "process_messages" /\ status = "err")
       => \A j \in 1..(FailedAt - 1) :
             HasText(arg_ids[j]) => RowsFor(arg_ids[j], arg_version) # {}
    /\ (op = "main::process_messages" /\ status = "err")
       => /\ db_fault # None
          /\ \A j \in 1..(db_fault[1] - 1) :
                HasText(arg_ids[j]) => RowsFor(arg_ids[j], arg_version) # {}

\* a run in batches of one id that failed in its second batch after its
\* first batch had stored a record
C13_Witness ==
    /\ op = "main::process_messages"
    /\ status = "err"
    /\ arg_batch_size = 1
    /\ db_fault = Some(2)
    /\ Len(processed) = pre_len + 1
    /\ processed[Len(processed)].original_message_id = arg_ids[1]
    /\ processed[Len(processed)].processing_version = arg_version

\* the ids of the stored messages without text
TextlessIds ==
    LET rows == SelectSeq(messages, LAMBDA m : m.text = None)
    IN [i \in 1..Len(rows) |-> rows[i].id]

\* the process command ran without a name and returned Ok: its ids are
\* the ones get_unprocessed_message_ids gave on the table before the run
ProcessedAllUnprocessed ==
    /\ op = "main::process_messages"
    /\ status = "ok"
    /\ arg_ids = get_unprocessed_message_ids(messages,
                      SubSeq(processed, 1, pre_len), arg_version)

\* C30: after a successful run of the process command over the ids that
\* get_unprocessed_message_ids(v) returned, get_unprocessed_message_ids(v)
\* returns exactly the ids of the stored messages without text, and so
\* nothing if and only if every stored message has text.
C30_UnprocessedAreTextless ==
    ProcessedAllUnprocessed =>
        /\ get_unprocessed_message_ids(messages, processed, arg_version)
               = TextlessIds
        /\ get_unprocessed_message_ids(messages, processed, arg_version) = <<>>
               <=> \A i \in 1..Len(messages) : messages[i].text # None

\* a run that stored a record and left a message without text unprocessed
C30_Witness ==
    /\ ProcessedAllUnprocessed
    /\ Len(arg_ids) = 2
    /\ Len(processed) > pre_len
    /\ get_unprocessed_message_ids(messages, processed, arg_version) # <<>>

----------------------------------------------------------------------------
(* Properties of chunking and export *)

SizeCalls == {"utils::chunk_by_size", "Repository::chunk_by_size",
              "MessageService::chunk_by_size"}
CountCalls == {"utils::chunk_by_lines", "Repository::chunk_by_lines",
               "MessageService::chunk_by_rows"}
ExportCalls == {"Repository::export_conversation_by_person",
                "MessageRepository::export_conversation_by_person",
                "MessageService::process_messages"}

RECURSIVE Flatten(_)
Flatten(cs) == IF cs = <<>> THEN <<>> ELSE Head(cs) \o Flatten(Tail(cs))

\* the estimated size of a chunk: the sum over its elements of
\* len(sender) + len(content) + overhead
RECURSIVE Estimate(_, _)
Estimate(chunk, overhead) ==
    IF chunk = <<>> THEN 0
    ELSE Len(Head(chunk).sender) + Head(chunk).content_len + overhead
         + Estimate(Tail(chunk), overhead)

\* the overhead the called function or export path estimates with
OverheadOf(name) ==
    IF name \in {"MessageService::chunk_by_size", "MessageService::process_messages"}
    THEN ServiceOverhead
    ELSE IF name = "utils::chunk_by_size" THEN UtilsOverhead
    ELSE RepositoryOverhead

\* the chunks that were handed to save_messages
WrittenIndexes == { written[k].index : k \in 1..Len(written) }

NoStrategy == size_arg = None /\ lines_arg = None

\* C4 as stated: for every sequence and every strategy, by size with any
\* budget and by count with any N, the function returns chunks whose
\* concatenation in index order is the input sequence.
C4_ChunksReconstructInput ==
    call \in SizeCalls \cup CountCalls
    => (outcome = "ok" /\ Flatten(chunks) = exported)

\* C5: with the size strategy and byte budget B, a chunk whose estimate is
\* over B has exactly one element, and a chunk of two or more elements has
\* an estimate of at most B.
C5_ChunkBudget ==
    (call \in SizeCalls \/ (call \in ExportCalls /\ size_arg # None))
    => \A i \in 1..Len(chunks) :
          /\ Estimate(chunks[i], OverheadOf(call)) > size_bytes(size_arg[1])
             => Len(chunks[i]) = 1
          /\ Len(chunks[i]) >= 2
             => Estimate(chunks[i], OverheadOf(call)) <= size_bytes(size_arg[1])

\* a size chunking that produced a chunk of several elements and a chunk
\* holding one oversized element
C5_Witness ==
    /\ call \in SizeCalls
    /\ size_bytes(size_arg[1]) > 0
    /\ \E i \in 1..Len(chunks) : Len(chunks[i]) >= 2
    /\ \E i \in 1..Len(chunks) :
          /\ Len(chunks[i]) = 1
          /\ Estimate(chunks[i], OverheadOf(call)) > size_bytes(size_arg[1])

\* C27: size chunking closes the current chunk before an element exactly
\* when the chunk is not empty and its estimate plus the estimate of the
\* element is over the budget B: for two consecutive chunks, the estimate
\* of the earlier one plus the estimate of the first element of the later
\* one is over B, and inside a chunk every element but the first fitted
\* within B together with the elements before it.
C27_NoEarlyClose ==
    (call \in SizeCalls \/ (call \in ExportCalls /\ size_arg # None)) =>
        LET B == size_bytes(size_arg[1])
            o == OverheadOf(call)
        IN /\ \A i \in 1..(Len(chunks) - 1) :
                  Estimate(chunks[i], o) + Estimate(<<chunks[i + 1][1]>>, o) > B
           /\ \A i \in 1..Len(chunks) :
                  /\ chunks[i] # <<>>
                  /\ \A j \in 2..Len(chunks[i]) :
                         Estimate(SubSeq(chunks[i], 1, j), o) <= B

\* a chunk of two elements was closed before a third element
C27_Witness ==
    /\ call \in SizeCalls
    /\ Len(chunks) >= 2
    /\ Len(chunks[1]) >= 2
    /\ Estimate(chunks[1], OverheadOf(call)) <= size_bytes(size_arg[1])
    /\ Estimate(chunks[1], OverheadOf(call))
           + Estimate(<<chunks[2][1]>>, OverheadOf(call))
         > size_bytes(size_arg[1])

\* C28: for the same messages and the same budget in MB, every size-based
\* chunking path splits as utils::chunk_by_size does.
C28_SizePathsAgree ==
    ((call \in SizeCalls \/ call = "main::write_messages_to_files")
         /\ size_arg # None) =>
        /\ outcome = "ok"
        /\ chunks = chunk_by_size(exported, size_arg[1])

\* C29: count-based chunking has no aborting state: for every count,
\* 0 included, the CLI writer and the chunking functions return an error or
\* a partition of the sequence.
C29_CountNeverAborts ==
    ((call \in CountCalls \/ call = "main::write_messages_to_files")
         /\ size_arg = None /\ lines_arg # None) =>
        /\ outcome \in {"ok", "err"}
        /\ outcome = "ok" =>
               /\ Flatten(chunks) = exported
               /\ \A i \in 1..Len(chunks) : chunks[i] # <<>>

\* C6 as stated: no export path hands an empty chunk to save_messages, and
\* when there is no message to export nothing is written.
C6_NoEmptyChunkExported ==
    call \in ExportCalls
    => /\ \A k \in 1..Len(written) : written[k].chunk # <<>>
       /\ exported = <<>> => written = <<>>

\* C7: the count strategy with N >= 1 over L elements returns ceil(L / N)
\* chunks, all but the last of N elements, the last of 1..N elements, and
\* no chunk for an empty input.
C7_CountChunks ==
    (call \in CountCalls /\ lines_arg[1] >= 1)
    => LET N == lines_arg[1]
           L == Len(exported)
       IN /\ outcome = "ok"
          /\ Len(chunks) = (L + N - 1) \div N
          /\ \A i \in 1..(Len(chunks) - 1) : Len(chunks[i]) = N
          /\ chunks # <<>> => Len(chunks[Len(chunks)]) \in 1..N
          /\ L = 0 => chunks = <<>>

\* a count chunking whose last chunk is shorter than the others
C7_Witness ==
    /\ call \in CountCalls
    /\ lines_arg[1] >= 2
    /\ Len(chunks) >= 2
    /\ Len(chunks[Len(chunks)]) < lines_arg[1]

----------------------------------------------------------------------------
(* Properties of the written files *)

\* a CSV reader: the records of a file, each a sequence of fields
RECURSIVE csv_parse_loop(_, _, _, _, _, _)
csv_parse_loop(str, rows, row, field, quoted, started) ==
    IF str = <<>>
    THEN IF started THEN Append(rows, Append(row, field)) ELSE rows
    ELSE LET c == Head(str)
         IN IF quoted
            THEN IF c = "\""
                 THEN IF Len(str) > 1 /\ str[2] = "\""
                      THEN csv_parse_loop(Tail(Tail(str)), rows, row,
                                          Append(field, "\""), TRUE, TRUE)
                      ELSE csv_parse_loop(Tail(str), rows, row, field, FALSE, TRUE)
                 ELSE csv_parse_loop(Tail(str), rows, row, Append(field, c),
                                     TRUE, TRUE)
            ELSE IF c = "\"" /\ field = <<>>
            THEN csv_parse_loop(Tail(str), rows, row, field, TRUE, TRUE)
            ELSE IF c = ","
            THEN csv_parse_loop(Tail(str), rows, Append(row, field), <<>>,
                                FALSE, TRUE)
            ELSE IF c = "\n"
            THEN IF started
                 THEN csv_parse_loop(Tail(str), Append(rows, Append(row, field)),
                                     <<>>, <<>>, FALSE, FALSE)
                 ELSE csv_parse_loop(Tail(str), rows, <<>>, <<>>, FALSE, FALSE)
            ELSE csv_parse_loop(Tail(str), rows, row, Append(field, c),
                                FALSE, TRUE)

csv_parse(str) == csv_parse_loop(str, <<>>, <<>>, <<>>, FALSE, FALSE)

\* the number of data rows of all files together
RECURSIVE DataRows(_)
DataRows(files) ==
    IF files = {} THEN 0
    ELSE LET f == CHOOSE x \in files : TRUE
         IN Len(csv_parse(f.content)) - 1 + DataRows(files \ {f})

Exporters == {"file_writer::write_messages_to_file",
              "file_writer::write_messages_to_timestamped_dir",
              "Repository::save_messages",
              "MessageRepository::save_messages",
              "main::write_file",
              "Repository::export_conversation_by_person"}

\* C14 as stated: an exporter that returns Ok has written all of its
\* output, whatever failed in the file system; and a chunked export that
\* fails has written no file after the failing chunk.
C14_WriteErrorsSurfaced ==
    wcall \in Exporters
    => /\ wresult = "ok" => disk.files = wintended
       /\ (wcall = "Repository::export_conversation_by_person"
           /\ wfault # NoFault /\ wfault.at <= Cardinality(wintended))
          => /\ wresult = "err"
             /\ Cardinality(disk.files) <= wfault.at

\* C15 as stated: a tabular export that succeeds writes, in every file, a
\* header row whose first column is ID and then rows numbered 1, 2, ..
\* from 1 in every file, one row for each message.
C15_CsvIdColumn ==
    (wcall \in Exporters /\ wformat = "Csv" /\ wresult = "ok"
     /\ wfault = NoFault)
    => /\ \A f \in disk.files :
             LET rows == csv_parse(f.content)
             IN /\ Len(rows) >= 1
                /\ rows[1][1] = <<"ID">>
                /\ \A k \in 1..(Len(rows) - 1) : rows[k + 1][1] = to_string(k)
       /\ DataRows(disk.files) = Len(out_messages)

\* a JSON reader.  The tokens of a text: strings with their escapes
\* undone, and the punctuation; white space between them is skipped
JsonSpace == {" ", "\n", "\r", "\t"}

\* the string that starts after the quote before index i
RECURSIVE json_read_string(_, _, _)
json_read_string(str, i, acc) ==
    IF i > Len(str) THEN [ok |-> FALSE, value |-> <<>>, next |-> i]
    ELSE LET c == str[i]
         IN IF c = "\"" THEN [ok |-> TRUE, value |-> acc, next |-> i + 1]
            ELSE IF c = "\\"
            THEN IF i < Len(str) /\ str[i + 1] \in {"\"", "\\", "n"}
                 THEN json_read_string(str, i + 2,
                          Append(acc, IF str[i + 1] = "n" THEN "\n"
                                      ELSE str[i + 1]))
                 ELSE [ok |-> FALSE, value |-> <<>>, next |-> i]
            ELSE IF c \in {"\n", "\r", "\t"}
            THEN [ok |-> FALSE, value |-> <<>>, next |-> i]
            ELSE json_read_string(str, i + 1, Append(acc, c))

\* the first index from i on that holds no white space
skip_space(str, i) ==
    IF \E j \in i..Len(str) : str[j] \notin JsonSpace
    THEN CHOOSE j \in i..Len(str) :
            /\ str[j] \notin JsonSpace
            /\ \A k \in i..(j - 1) : str[k] \in JsonSpace
    ELSE Len(str) + 1

RECURSIVE json_tokens_from(_, _)
json_tokens_from(str, i) ==
    LET j == skip_space(str, i)
    IN IF j > Len(str) THEN <<>>
       ELSE IF str[j] \in {"[", "]", "{", "}", ",", ":"}
       THEN <<[kind |-> str[j], value |-> <<>>]>> \o json_tokens_from(str, j + 1)
       ELSE IF str[j] = "\""
       THEN LET r == json_read_string(str, j + 1, <<>>)
            IN IF r.ok
               THEN <<[kind |-> "str", value |-> r.value]>>
                    \o json_tokens_from(str, r.next)
               ELSE <<[kind |-> "bad", value |-> <<>>]>>
       ELSE <<[kind |-> "bad", value |-> <<>>]>>

json_tokens(str) == json_tokens_from(str, 1)

KindAt(toks, i) == IF i <= Len(toks) THEN toks[i].kind ELSE "eof"

\* the members of an object from token i on, after "{" or ","
RECURSIVE json_members(_, _, _)
json_members(toks, i, acc) ==
    IF KindAt(toks, i) = "str" /\ KindAt(toks, i + 1) = ":"
       /\ KindAt(toks, i + 2) = "str"
    THEN LET fields == Append(acc, <<toks[i].value, toks[i + 2].value>>)
         IN IF KindAt(toks, i + 3) = ","
            THEN json_members(toks, i + 4, fields)
            ELSE IF KindAt(toks, i + 3) = "}"
            THEN [ok |-> TRUE, fields |-> fields, next |-> i + 4]
            ELSE [ok |-> FALSE, fields |-> <<>>, next |-> i]
    ELSE [ok |-> FALSE, fields |-> <<>>, next |-> i]

json_parse_object(toks, i) ==
    IF KindAt(toks, i) # "{" THEN [ok |-> FALSE, fields |-> <<>>, next |-> i]
    ELSE IF KindAt(toks, i + 1) = "}"
    THEN [ok |-> TRUE, fields |-> <<>>, next |-> i + 2]
    ELSE json_members(toks, i + 1, <<>>)

\* the elements of an array from token i on, after "[" or ","
RECURSIVE json_elements(_, _, _)
json_elements(toks, i, acc) ==
    LET o == json_parse_object(toks, i)
    IN IF ~o.ok THEN [ok |-> FALSE, objects |-> <<>>]
       ELSE IF KindAt(toks, o.next) = ","
       THEN json_elements(toks, o.next + 1, Append(acc, o.fields))
       ELSE IF KindAt(toks, o.next) = "]" /\ o.next = Len(toks)
       THEN [ok |-> TRUE, objects |-> Append(acc, o.fields)]
       ELSE [ok |-> FALSE, objects |-> <<>>]

\* the text parsed as one array of objects with string members
json_parse(str) ==
    LET toks == json_tokens(str)
    IN IF KindAt(toks, 1) # "[" THEN [ok |-> FALSE, objects |-> <<>>]
       ELSE IF KindAt(toks, 2) = "]" /\ Len(toks) = 2
       THEN [ok |-> TRUE, objects |-> <<>>]
       ELSE json_elements(toks, 2, <<>>)

\* the text is one array holding, for each message in order, an object
\* with exactly the members sender, timestamp and content of the message
RoundTrips(text, msgs) ==
    LET parsed == json_parse(text)
    IN /\ parsed.ok
       /\ Len(parsed.objects) = Len(msgs)
       /\ \A k \in 1..Len(msgs) :
             /\ Len(parsed.objects[k]) = 3
             /\ { parsed.objects[k][j] : j \in 1..3 }
                = { << <<"sender">>, msgs[k].sender >>,
                    << <<"timestamp">>, strftime(msgs[k].timestamp) >>,
                    << <<"content">>, msgs[k].content >> }

\* C16: when nothing fails in the file system, every file a structured
\* export writes parses as one array of exactly N objects, N >= 0, the k-th
\* with exactly the members sender, timestamp (the date as the exporter
\* formats it) and content of the k-th of the N messages written to the
\* file.
C16_JsonRoundTrip ==
    (wcall \in Exporters /\ wformat = "Json" /\ wfault = NoFault
     /\ wresult = "ok")
    => IF wcall = "Repository::export_conversation_by_person"
       THEN \E lines \in 1..MaxWrite :
               LET cs == Repository_chunk_by_lines(out_messages, lines).chunks
               IN /\ Cardinality(disk.files) = Len(cs)
                  /\ \A i \in 1..Len(cs) :
                        \E f \in disk.files :
                           /\ f.path = chunk_path(OutputDir, Len(cs), i)
                           /\ RoundTrips(f.content, cs[i])
       ELSE /\ \A f \in disk.files : RoundTrips(f.content, out_messages)
            /\ (out_messages # <<>> => disk.files # {})

\* the JSON writer of main.rs wrote two messages, the first with a body
\* that has to be escaped, and the file reads back as the two messages
C16_Witness ==
    /\ wcall = "main::write_file"
    /\ wformat = "Json"
    /\ wfault = NoFault
    /\ wresult = "ok"
    /\ Len(out_messages) = 2
    /\ out_messages[1].content = <<"\"">>
    /\ \E f \in disk.files :
          /\ RoundTrips(f.content, out_messages)
          /\ Len(json_parse(f.content).objects) = 2

\* C17 as stated: an exporter called with a path whose directory does not
\* exist creates the directory and succeeds.
C17_ParentDirsCreated ==
    (wcall \in Exporters /\ wfault = NoFault /\ ~out_dir_exists)
    => /\ wresult = "ok"
       /\ out_messages # <<>> => disk.files # {}

----------------------------------------------------------------------------
(* Properties of the sentiment score *)

Scored == scall # "none" /\ sscore # None

\* the words of the two lexicons
LexiconWords == { e[1] : e \in positive_words \cup negative_words }
IsLexiconWord(word) == lower_word(word) \in LexiconWords
IsNegation(word) == lower_word(word) \in negations
IsFiller(word) ==
    /\ ~IsLexiconWord(word)
    /\ ~IsNegation(word)
    /\ lower_word(word) \notin { e[1] : e \in intensifiers }

\* the weight of a lexicon word, as a fraction
WeightOf(word) ==
    [num |-> (CHOOSE e \in positive_words \cup negative_words :
                  e[1] = lower_word(word))[2],
     den |-> 10]

f32_mul(a, b) == [num |-> a.num * b.num, den |-> a.den * b.den]
MinusFourFifths == [num |-> -8, den |-> 10]

\* x brought into [-1, 1]
Saturate(x) ==
    IF x.num > x.den THEN f32(1)
    ELSE IF x.num < -x.den THEN f32(-1)
    ELSE x

\* C18: whatever the text, the score that analyze_sentiment returns (and
\* that process_text puts in the analysis) lies in [-1.0, 1.0]: it is the
\* running total divided by the number of sentiment-bearing tokens when that
\* quotient lies in the range, 1.0 when the quotient is above it and -1.0
\* when it is below.
C18_ScoreInRange ==
    scall # "none" =>
        /\ sscore # None
        /\ sscore[1].den > 0
        /\ -sscore[1].den <= sscore[1].num
        /\ sscore[1].num <= sscore[1].den
        /\ LET acc == sentiment_totals(stext)
           IN acc.word_count > 0 =>
                  f32_eq(sscore[1], Saturate(normalized(acc)))

\* a text whose quotient is above 1.0 was scored 1.0
C18_Witness ==
    /\ scall = "analyze_sentiment"
    /\ sentiment_totals(stext).word_count > 0
    /\ f32_lt(f32(1), normalized(sentiment_totals(stext)))
    /\ \E i \in DOMAIN stext : lower_word(stext[i]) \in { e[1] : e \in intensifiers }
    /\ sscore = Some(f32(1))

\* C19: when no word of the text is in the positive or the negative lexicon
\* (the empty text, a text of intensifiers and negation words only), the
\* score is exactly 0.0, and the analysis that process_text builds carries
\* it as Some(0.0), not as None.
C19_NeutralIsZero ==
    (scall # "none" /\ \A i \in DOMAIN stext : ~IsLexiconWord(stext[i])) =>
        /\ sscore # None
        /\ sscore[1].num = 0
        /\ sscore[1].den > 0

\* process_text scored a text made of a negation word and an intensifier
C19_Witness ==
    /\ scall = "process_text"
    /\ stext = <<"not", "very">>
    /\ sscore = Some(f32(0))

\* C20 as stated: 'not w' scores -0.8 times the score of 'w'; so does
\* 'not x w' for a filler word x; 'not x y w' scores as 'w' does.
C20_NegationScalesScore ==
    (Scored /\ stext # <<>> /\ IsNegation(stext[1])
            /\ IsLexiconWord(stext[Len(stext)])
            /\ \A i \in 2..(Len(stext) - 1) : IsFiller(stext[i])) =>
        LET w == stext[Len(stext)]
        IN /\ Len(stext) \in {2, 3} =>
                  f32_eq(sscore[1],
                         f32_mul(MinusFourFifths, analyze_sentiment(<<w>>)))
           /\ Len(stext) >= 4 =>
                  f32_eq(sscore[1], analyze_sentiment(<<w>>))

\* C20, amended: for a lexicon word w of weight x, 'not w' scores -0.8 * x
\* brought into [-1.0, 1.0]; so does 'not x w' for a filler word x: the
\* negation word counts one or two tokens before w.  'not x y w' scores x
\* brought into [-1.0, 1.0], as 'w' does: three or more tokens before w the
\* negation word does not count.
C20_NegationScalesWeight ==
    (Scored /\ stext # <<>> /\ IsNegation(stext[1])
            /\ IsLexiconWord(stext[Len(stext)])
            /\ \A i \in 2..(Len(stext) - 1) : IsFiller(stext[i])) =>
        LET w == stext[Len(stext)]
        IN /\ Len(stext) \in {2, 3} =>
                  f32_eq(sscore[1],
                         Saturate(f32_mul(MinusFourFifths, WeightOf(w))))
           /\ Len(stext) >= 4 =>
                  /\ f32_eq(sscore[1], Saturate(WeightOf(w)))
                  /\ f32_eq(sscore[1], analyze_sentiment(<<w>>))

\* 'not great' was scored -1.0, and 'great' scores 1.0
C20_Witness ==
    /\ scall = "analyze_sentiment"
    /\ stext = <<"not", "great">>
    /\ f32_eq(sscore[1], f32(-1))
    /\ f32_eq(analyze_sentiment(<<"great">>), f32(1))

----------------------------------------------------------------------------
(* Properties of text analysis *)

IsLetter(c) == c \in UpperChars \cup LowerChars \cup {"U+1D400"}
IsAlphanumeric(c) == IsLetter(c) \/ c = "1"
IsLowerAlphanumeric(c) == c \in LowerChars \cup {"1"}

\* the maximal runs of characters of s that are not whitespace, as pairs
\* <<first, last>>
Runs(s) ==
    { r \in (1..Len(s)) \X (1..Len(s)) :
        /\ r[1] <= r[2]
        /\ \A i \in r[1]..r[2] : ~IsSpace(s[i])
        /\ (r[1] = 1 \/ IsSpace(s[r[1] - 1]))
        /\ (r[2] = Len(s) \/ IsSpace(s[r[2] + 1])) }

\* the k-th run, from the left, among the runs of the set rs
NthRun(rs, k) ==
    CHOOSE r \in rs : Cardinality({ q \in rs : q[1] < r[1] }) = k - 1

C22_CleanOutputAlphanumeric ==
    ccall = "clean_text" =>
        /\ \A i \in DOMAIN cout : cout[i] = " " \/ IsLowerAlphanumeric(cout[i])
        /\ cout # <<>> => cout[1] # " " /\ cout[Len(cout)] # " "
        /\ \A i \in 1..(Len(cout) - 1) : ~(cout[i] = " " /\ cout[i + 1] = " ")
        /\ SelectSeq(cout, IsAlphanumeric)
               = to_lowercase(SelectSeq(replace_urls(ctext), IsAlphanumeric))
        /\ ctext = <<>> => cout = <<>>

\* C23: the tokens are the whitespace-separated fragments of the text that
\* are not in the stopword set, as they are written, in their order and
\* with duplicates kept.
C23_TokensAreFragments ==
    ccall = "tokenize" =>
        LET kept == { r \in Runs(ctext) :
                        SubSeq(ctext, r[1], r[2]) \notin stopwords }
        IN /\ Len(cout) = Cardinality(kept)
           /\ \A k \in DOMAIN cout :
                  LET r == NthRun(kept, k)
                  IN cout[k] = SubSeq(ctext, r[1], r[2])

\* of 'this tHis' the stopword is dropped and its spelling with a capital
\* letter is kept
C23_Witness ==
    /\ ccall = "tokenize"
    /\ ctext = <<"t", "h", "i", "s", " ", "t", "H", "i", "s">>
    /\ cout = << <<"t", "H", "i", "s">> >>

\* C24 as stated: process_text returns no entity, whatever the text.
C24_NoEntities ==
    ccall = "process_text" => cout = <<>>

\* an uppercase character that to_lowercase leaves as it is
IsUnmappedUppercase(c) == is_uppercase(c) /\ lower(c) = c

\* C24, amended: process_text returns no entity for a text without an
\* uppercase character that has no lowercase form; every entity it returns
\* is a word that starts with such a character, in a text that was detected
\* as English.
C24_NoEntitiesOfCasedLetters ==
    ccall = "process_text" =>
        /\ (\A i \in DOMAIN ctext : ~IsUnmappedUppercase(ctext[i]))
               => cout = <<>>
        /\ \A k \in DOMAIN cout :
               cenglish /\ IsUnmappedUppercase(cout[k].text[1])

\* an English text with a word that starts with a capital letter was
\* analysed and no entity came back
C24_Witness ==
    /\ ccall = "process_text"
    /\ cenglish
    /\ \E r \in Runs(ctext) : ctext[r[1]] \in UpperChars
    /\ cout = <<>>

----------------------------------------------------------------------------
(* Properties of concurrent callers *)

\* C25: when two callers store the record of the same message and version
\* at once, one record of the pair is stored and both callers are handed
\* that record.
C25_ConcurrentCallersOneRecord ==
    (/\ \A c \in Callers : rcall[c].pc = "done"
     /\ rcall[1].message_id = rcall[2].message_id
     /\ rcall[1].version = rcall[2].version) =>
        /\ Len(SelectSeq(rstore, LAMBDA p :
               /\ p.original_message_id = rcall[1].message_id
               /\ p.processing_version = rcall[1].version)) <= 1
        /\ \A c \in Callers : rcall[c].status = "ok" /\ rcall[c].ret # None
        /\ rcall[1].ret = rcall[2].ret

----------------------------------------------------------------------------
(* Properties of the paths of an export run *)

\* the names of the files of n chunks
ChunkNames(n) ==
    IF n = 1 THEN { <<PersonName>> }
    ELSE { <<PersonName, "_chunk_">> \o to_string(i) : i \in 1..n }

IsCsvFile(f) == StartsWith(f.content, csv_header_id)

\* C26: in an export run every chunk, and every format exported for it,
\* has a file of its own, named with the index of the chunk when there are
\* several chunks: after a run of n chunks there are n files per format,
\* and the CSV export of the export command has not replaced its TXT
\* export.
C26_DistinctPaths ==
    (wresult = "ok" /\ wfault = NoFault /\ out_messages # <<>>) =>
        /\ wcall = "Repository::export_conversation_by_person" =>
               \E n \in 1..Len(out_messages) :
                   /\ Cardinality(disk.files) = n
                   /\ { f.path.name : f \in disk.files } = ChunkNames(n)
        /\ wcall = "main::export_conversation_by_person" =>
               \E n \in 1..Len(out_messages) :
                   /\ Cardinality({ f \in disk.files : IsCsvFile(f) }) = n
                   /\ Cardinality({ f \in disk.files : ~IsCsvFile(f) }) = n

====
